---------------------------- MODULE Spec2Model ----------------------------
(***************************************************************************)
(* A model of script/flatpak-cargo-generator.py: the conversion of a       *)
(* Cargo.lock into a list of flatpak sources.                              *)
(*                                                                         *)
(* Text that the program parses (source URLs) is a sequence of one-letter  *)
(* strings, so that urlparse, str.replace, rstrip, lower and endswith are  *)
(* computed letter by letter; text that the program only builds (output    *)
(* fields) is a string, built with \o as the f-strings build it.           *)
(***************************************************************************)
EXTENDS Integers, Sequences, FiniteSets, TLC

(***************************************************************************)
(* Text helpers: Python's str methods on sequences of letters.             *)
(***************************************************************************)

\* "".join(s): the string of a sequence of letters.
RECURSIVE Join(_)
Join(s) == IF s = <<>> THEN "" ELSE Head(s) \o Join(Tail(s))

\* s[n:]
DropFirst(s, n) == SubSeq(s, n + 1, Len(s))

\* s[:n]
TakeFirst(s, n) == SubSeq(s, 1, IF n < Len(s) THEN n ELSE Len(s))

\* s.startswith(p)
StartsWith(s, p) == Len(s) >= Len(p) /\ SubSeq(s, 1, Len(p)) = p

\* s.endswith(p)
EndsWith(s, p) == Len(s) >= Len(p) /\ SubSeq(s, Len(s) - Len(p) + 1, Len(s)) = p

\* s.replace(old, new): every occurrence, left to right, not overlapping.
RECURSIVE Replace(_, _, _)
Replace(s, old, new) ==
    IF Len(s) < Len(old) THEN s
    ELSE IF StartsWith(s, old)
         THEN new \o Replace(DropFirst(s, Len(old)), old, new)
         ELSE <<Head(s)>> \o Replace(Tail(s), old, new)

\* s.rstrip(c)
RECURSIVE RStrip(_, _)
RStrip(s, c) ==
    IF s /= <<>> /\ s[Len(s)] = c THEN RStrip(SubSeq(s, 1, Len(s) - 1), c) ELSE s

\* The capital letters of the model's alphabet and their small letters.
LowerChar(c) ==
    CASE c = "R" -> "r"
      [] c = "G" -> "g"
      [] c = "I" -> "i"
      [] c = "T" -> "t"
      [] OTHER -> c

\* s.lower()
Lower(s) == [i \in 1..Len(s) |-> LowerChar(s[i])]

\* s.find(c) for a set of letters: the first position holding one of them, 0
\* when there is none.
FindAny(s, cs) ==
    IF \E i \in 1..Len(s) : s[i] \in cs
    THEN CHOOSE i \in 1..Len(s) : s[i] \in cs /\ \A j \in 1..(i - 1) : s[j] \notin cs
    ELSE 0

\* s.split(c)[-1]: what follows the last c (all of s when there is none).
LastSegment(s, c) ==
    IF \E i \in 1..Len(s) : s[i] = c
    THEN LET i == CHOOSE k \in 1..Len(s) : s[k] = c /\ \A j \in (k + 1)..Len(s) : s[j] /= c
         IN  DropFirst(s, i)
    ELSE s

\* A dict is the sequence of its items, in insertion order.
dict_has(d, k) == \E i \in 1..Len(d) : d[i].key = k

dict_get(d, k) == d[CHOOSE i \in 1..Len(d) : d[i].key = k].value

\* d[k] = v: a key already there keeps its place.
dict_set(d, k, v) ==
    IF dict_has(d, k)
    THEN [i \in 1..Len(d) |-> IF d[i].key = k THEN [key |-> k, value |-> v] ELSE d[i]]
    ELSE Append(d, [key |-> k, value |-> v])

\* del d[k]
dict_del(d, k) == SelectSeq(d, LAMBDA it : it.key /= k)

(***************************************************************************)
(* Manifests: TOML values and the workspace merge                          *)
(***************************************************************************)

\* The values toml.load gives: a str, a bool, a list (of str), or a dict, held
\* as its items in insertion order; and Python's None.
TStr(s) == [str |-> s]
TBool(b) == [bool |-> b]
TList(l) == [list |-> l]
TDict(items) == [dict |-> items]
PyNone == [none |-> TRUE]
Item(k, v) == [key |-> k, value |-> v]

\* isinstance(x, dict)
isdict(x) == "dict" \in DOMAIN x

\* not x, for None and for a dict.
falsy(x) == "none" \in DOMAIN x \/ (isdict(x) /\ x.dict = <<>>)

\* key in x: a key of the dict. (Of a str or a list Python asks whether key is
\* a part or an element; the model's keys are neither.)
key_in(x, key) == isdict(x) /\ dict_has(x.dict, key)

\* workspace.get(key, None)
get_or_none(workspace, key) ==
    IF key_in(workspace, key) THEN dict_get(workspace.dict, key) ELSE PyNone

\* A merge that overwrites the member's feature list with the workspace's.
merge_workspace_value_overwrite(item, w) == dict_set(item, w.key, w.value)

\* One turn of the loop over workspace_item.items(): features are additive,
\* any other key takes the workspace's value.
merge_workspace_value(item, w) ==
    IF w.key = "features" /\ dict_has(item, "features")
    THEN dict_set(item, "features", TList(dict_get(item, "features").list \o w.value.list))
    ELSE dict_set(item, w.key, w.value)

\* The loop over the first n items of workspace_item.
RECURSIVE merge_workspace_item(_, _, _)
merge_workspace_item(item, workspace_item, n) ==
    IF n = 0 THEN item
    ELSE merge_workspace_value(merge_workspace_item(item, workspace_item, n - 1),
                               workspace_item[n])

RECURSIVE update_workspace_keys(_, _)

\* A merge that leaves the marker in the member's table.
inherit_keeps_marker(item, workspace_item) ==
    IF dict_has(item.dict, "workspace")
    THEN IF isdict(workspace_item)
         THEN TDict(merge_workspace_item(item.dict, workspace_item.dict,
                                         Len(workspace_item.dict)))
         ELSE IF Len(item.dict) > 1
         THEN TDict(dict_set(item.dict, "version", workspace_item))
         ELSE workspace_item
    ELSE update_workspace_keys(item, workspace_item)

\* What update_workspace_keys leaves under a key whose item has or has not
\* the 'workspace' marker, the workspace having the key.
inherit(item, workspace_item) ==
    IF dict_has(item.dict, "workspace")
    THEN IF isdict(workspace_item)
         THEN TDict(merge_workspace_item(dict_del(item.dict, "workspace"),
                                         workspace_item.dict, Len(workspace_item.dict)))
         ELSE IF Len(item.dict) > 1
         THEN TDict(dict_set(dict_del(item.dict, "workspace"), "version", workspace_item))
         ELSE workspace_item
    ELSE update_workspace_keys(item, workspace_item)

\* A plausible slip: dev- and build-dependencies are resolved like any other
\* key, against the workspace's table of the same name.
update_item_own_group(key, item, workspace) ==
    IF ~isdict(item) THEN item
    ELSE IF key = "target"
    THEN TDict([i \in 1..Len(item.dict) |->
                   Item(item.dict[i].key, update_workspace_keys(item.dict[i].value, workspace))])
    ELSE IF falsy(workspace) \/ ~key_in(workspace, key) THEN item
    ELSE inherit(item, dict_get(workspace.dict, key))

\* What one turn of the loop over pkg.items() leaves under the key.
update_item(key, item, workspace) ==
    IF ~isdict(item) THEN item
    ELSE IF key = "target"
    THEN TDict([i \in 1..Len(item.dict) |->
                   Item(item.dict[i].key,
                        update_workspace_keys(item.dict[i].value, workspace))])
    ELSE IF key \in {"dev-dependencies", "build-dependencies"}
    THEN update_workspace_keys(item, get_or_none(workspace, "dependencies"))
    ELSE IF falsy(workspace) \/ ~key_in(workspace, key) THEN item
    ELSE inherit(item, dict_get(workspace.dict, key))

\* update_workspace_keys(pkg, workspace): pkg as the call leaves it.
update_workspace_keys(pkg, workspace) ==
    TDict([i \in 1..Len(pkg.dict) |->
              Item(pkg.dict[i].key,
                   update_item(pkg.dict[i].key, pkg.dict[i].value, workspace))])

(***************************************************************************)
(* urllib.parse as the program uses it.                                    *)
(***************************************************************************)

SmallLetters ==
    {"a", "b", "c", "d", "e", "f", "g", "h", "i", "j", "k", "l", "m",
     "n", "o", "p", "q", "r", "s", "t", "u", "v", "w", "x", "y", "z"}
CapitalLetters == {"R", "G", "I", "T"}
Digits == {"0", "1", "2", "3", "4", "5", "6", "7", "8", "9"}
\* urllib.parse.scheme_chars
SchemeChars == SmallLetters \cup CapitalLetters \cup Digits \cup {"+", "-", "."}

GitPlusStr == <<"g", "i", "t", "+">>
HttpsStr == <<"h", "t", "t", "p", "s">>
SshStr == <<"s", "s", "h">>
SchemeSep == <<":", "/", "/">>
DotGit == <<".", "g", "i", "t">>
GithubHost == <<"g", "i", "t", "h", "u", "b", ".", "c", "o", "m">>

\* urllib.parse.uses_netloc, the members the model's URLs can have.
UsesNetloc == {HttpsStr, SshStr, GitPlusStr \o SshStr}

\* urlsplit, first step: the scheme is what precedes the first ':' when it
\* starts with a letter and is made of scheme letters; it is lowered.
SplitScheme(url) ==
    LET colon == FindAny(url, {":"})
    IN  IF /\ colon > 1
           /\ url[1] \in SmallLetters \cup CapitalLetters
           /\ \A i \in 1..(colon - 1) : url[i] \in SchemeChars
        THEN [scheme |-> Lower(TakeFirst(url, colon - 1)), rest |-> DropFirst(url, colon)]
        ELSE [scheme |-> <<>>, rest |-> url]

\* urlsplit, second step: after '//' the netloc runs to the first of '/?#'.
SplitNetloc(rest) ==
    LET delim == FindAny(DropFirst(rest, 2), {"/", "?", "#"})
    IN  IF ~StartsWith(rest, <<"/", "/">>) THEN [netloc |-> <<>>, rest |-> rest]
        ELSE IF delim = 0 THEN [netloc |-> DropFirst(rest, 2), rest |-> <<>>]
        ELSE [netloc |-> SubSeq(rest, 3, delim + 1), rest |-> DropFirst(rest, delim + 1)]

\* s.split(c, 1): what precedes the first c, and what follows it (nothing
\* when there is no c).
SplitFirst(s, c) ==
    LET i == FindAny(s, {c})
    IN  IF i = 0 THEN [before |-> s, after |-> <<>>]
        ELSE [before |-> TakeFirst(s, i - 1), after |-> DropFirst(s, i)]

ParseResult(scheme, netloc, path, params, query, fragment) ==
    [scheme |-> scheme, netloc |-> netloc, path |-> path,
     params |-> params, query |-> query, fragment |-> fragment]

UrlparseQuery(scheme, netloc, q, fragment) ==
    ParseResult(scheme, netloc, q.before, <<>>, q.after, fragment)

UrlparseFragment(scheme, netloc, f) ==
    UrlparseQuery(scheme, netloc, SplitFirst(f.before, "?"), f.after)

UrlparseNetloc(scheme, n) == UrlparseFragment(scheme, n.netloc, SplitFirst(n.rest, "#"))

UrlparseScheme(s) == UrlparseNetloc(s.scheme, SplitNetloc(s.rest))

\* urlparse(url): the scheme, the netloc, then the fragment after the first
\* '#' and the query after the first '?'. (The model's URLs hold no ';', so
\* params are empty.)
urlparse(url) == UrlparseScheme(SplitScheme(url))

\* ParseResult.geturl(): urlunparse.
geturl(u) ==
    LET withNetloc ==
            IF u.netloc /= <<>>
               \/ (u.scheme /= <<>> /\ u.scheme \in UsesNetloc
                   /\ ~StartsWith(u.path, <<"/", "/">>))
            THEN <<"/", "/">> \o u.netloc
                 \o (IF u.path /= <<>> /\ u.path[1] /= "/" THEN <<"/">> ELSE <<>>)
                 \o u.path
            ELSE u.path
        withScheme == IF u.scheme /= <<>> THEN u.scheme \o <<":">> \o withNetloc
                      ELSE withNetloc
        withQuery == IF u.query /= <<>> THEN withScheme \o <<"?">> \o u.query
                     ELSE withScheme
    IN  IF u.fragment /= <<>> THEN withQuery \o <<"#">> \o u.fragment ELSE withQuery

(***************************************************************************)
(* canonical_url                                                           *)
(***************************************************************************)

\* url.replace('git+https://', 'https://')
replace_git_https(url) ==
    Replace(url, GitPlusStr \o HttpsStr \o SchemeSep, HttpsStr \o SchemeSep)

\* ParseResult(u.scheme, u.netloc, u.path, '', '', '') and the path's
\* rstrip('/').
drop_query_rstrip(u) == ParseResult(u.scheme, u.netloc, RStrip(u.path, "/"), <<>>, <<>>, <<>>)

\* if u.netloc == 'github.com': https and a lowered path.
github_rule(u) ==
    IF u.netloc = GithubHost
    THEN [u EXCEPT !.scheme = HttpsStr, !.path = Lower(u.path)]
    ELSE u

\* if u.path.endswith('.git'): the path without it.
strip_dot_git(u) ==
    IF EndsWith(u.path, DotGit)
    THEN [u EXCEPT !.path = TakeFirst(u.path, Len(u.path) - Len(DotGit))]
    ELSE u

canonical_url(url) ==
    strip_dot_git(github_rule(drop_query_rstrip(urlparse(replace_git_https(url)))))

(***************************************************************************)
(* The state.  The first group belongs to the study of canonical_url on    *)
(* its own (SpecUrl); the rest is added with the run of generate_sources.  *)
(***************************************************************************)
VARIABLES
    url,          \* the URL given to canonical_url, in parts
    canon,        \* canonical_url(url), once computed
    recanon,      \* canonical_url(canon.geturl()), once computed
    alt,          \* a second URL, made from url by one change
    rel,          \* the change that made alt from url
    alt_canon,    \* canonical_url(alt)
    the_pkg,      \* a _GitPackage given to normalized
    other_pkg,    \* another _GitPackage of the same workspace
    norm_first,   \* the_pkg.normalized, the first time
    norm_other,   \* other_pkg.normalized
    norm_second,  \* the_pkg.normalized, the second time
    remerged,     \* norm_first after update_workspace_keys once more
    tree,         \* the working copy given to the manifest scan
    found,        \* the packages the scan has found
    cargo_lock,   \* the decoded Cargo.lock given to generate_sources
    git_tarballs, \* the --git-tarballs flag
    main_pc,      \* where main / generate_sources stands
    pc,           \* where each get_package_sources task stands
    frame,        \* each task's local variables
    result,       \* what each task returned or raised
    cur,          \* the task the event loop is running (0: none)
    ready,        \* the event loop's queue of tasks ready to run
    git_repos,    \* generate_sources' git_repos, in insertion order
    disk,         \* the working copies under the cache directory
    calls,        \* history: the calls of get_git_repo_packages
    repo_pc,      \* where each get_git_repo_sources task stands
    repo_result,  \* what each get_git_repo_sources task returned
    sources,      \* the list generate_sources returns
    outfile       \* the output file's contents

url_vars == <<url, canon, recanon, alt, rel, alt_canon>>

run_vars ==
    <<cargo_lock, git_tarballs, main_pc, pc, frame, result, cur, ready,
      git_repos, disk, calls, repo_pc, repo_result, sources, outfile>>

manifest_vars ==
    <<the_pkg, other_pkg, norm_first, norm_other, norm_second, remerged, tree, found>>

vars == <<url_vars, manifest_vars, run_vars>>

\* The value of a result not computed yet.
NotYet == [computed |-> FALSE]

(***************************************************************************)
(* The program's constants and pure functions                              *)
(***************************************************************************)

CRATES_IO == "https://static.crates.io/crates"
CARGO_HOME == "cargo"
CARGO_CRATES == CARGO_HOME \o "/vendor"
VENDORED_SOURCES == "vendored-sources"
GIT_CACHE == "flatpak-cargo/git"
COMMIT_LEN == 7

\* os.path.join(a, b) for a relative b.
os_path_join(a, b) == a \o "/" \o b

\* json.dumps({'package': checksum, 'files': {}}) for a string checksum.
json_dumps_checksum(checksum) == "{\"package\": \"" \o checksum \o "\", \"files\": {}}"

\* json.dumps({'package': None, 'files': {}})
json_dumps_no_checksum == "{\"package\": null, \"files\": {}}"

\* git_repo_name(git_url, commit)
git_repo_name(git_url, commit) ==
    Join(LastSegment(canonical_url(git_url).path, "/")) \o "-"
        \o Join(TakeFirst(commit, COMMIT_LEN))

\* The clone_dir of fetch_git_repo(git_url, commit), under the cache directory.
clone_dir_of(git_url) ==
    os_path_join("flatpak-cargo",
                 Join(Replace(Replace(git_url, SchemeSep, <<"_">>), <<"/">>, <<"_">>)))

\* get_git_tarball(repo_url, commit): the tarball's URL, or the exception.
\* (Of the three hosts the function knows, the model's URLs have github.com.)
get_git_tarball(repo_url, commit) ==
    LET u == canonical_url(repo_url)
        path == Tail(u.path)
        slash == FindAny(path, {"/"})
        owner == TakeFirst(path, slash - 1)
        repo1 == DropFirst(path, slash)
        repo == IF EndsWith(repo1, DotGit) THEN Replace(repo1, DotGit, <<>>) ELSE repo1
    IN  IF u.path = <<>> \/ slash = 0 \/ FindAny(repo1, {"/"}) /= 0
        THEN [raise |-> "AssertionError"]
        ELSE IF u.netloc = GithubHost
        THEN [url |-> "https://codeload." \o Join(u.netloc) \o "/" \o Join(owner) \o "/"
                          \o Join(repo) \o "/tar.gz/" \o Join(commit)]
        ELSE [raise |-> "ValueError"]

\* get_remote_sha256(url) of a download that succeeds: the digest of what the
\* URL serves.
get_remote_sha256(u) == "sha256(" \o u \o ")"

\* The operation get_git_repo_sources(u, commit, tarball) returns, sha256 being
\* the digest its download gave.
get_git_repo_sources_result(u, commit, tarball, sha256) ==
    IF tarball
    THEN [type |-> "archive", archive_type |-> "tar-gzip",
          url |-> get_git_tarball(u, commit).url, sha256 |-> sha256,
          dest |-> os_path_join(GIT_CACHE, git_repo_name(u, commit))]
    ELSE [type |-> "git", url |-> Join(u), commit |-> Join(commit),
          dest |-> os_path_join(GIT_CACHE, git_repo_name(u, commit))]

(***************************************************************************)
(* The inputs: lock files made of a few entries                            *)
(***************************************************************************)

\* The most packages of a lock file.
MaxPackages == 2

ExampleHost == <<"e", "x", ".", "i", "o">>
GitHttps == GitPlusStr \o HttpsStr \o SchemeSep
RegistrySource == <<"r", "e", "g", "i", "s", "t", "r", "y", "+">> \o HttpsStr \o SchemeSep \o ExampleHost
CommitA == <<"1", "2", "3", "4", "5", "6", "7", "a">>
CommitB == <<"1", "2", "3", "4", "5", "6", "7", "b">>
CommitC == <<"8", "9", "a", "b", "c", "d", "e", "f">>
PathOR == <<"/", "o", "/", "r">>
PathORGit == <<"/", "o", "/", "R", ".", "g", "i", "t">>
PathO_R == <<"/", "o", "_", "r">>
QueryBranch == <<"?", "b", "r", "a", "n", "c", "h", "=", "m">>
QueryTag == <<"?", "t", "a", "g", "=", "v">>
QueryRev == <<"?", "r", "e", "v", "=", "x">>

\* The repositories of the model, by canonical URL.
GithubRepo == HttpsStr \o SchemeSep \o GithubHost \o PathOR
ExampleRepo == HttpsStr \o SchemeSep \o ExampleHost \o PathOR
ExampleRepo2 == HttpsStr \o SchemeSep \o ExampleHost \o PathO_R

LockEntries ==
    { [name |-> "foo", version |-> "1.0.0", source |-> RegistrySource, checksum |-> "abc123"],
      [name |-> "bar", version |-> "1.0.0", source |-> RegistrySource],
      [name |-> "baz", version |-> "0.1.0"],
      [name |-> "bar", version |-> "1.0.0",
       source |-> GitHttps \o GithubHost \o PathORGit \o QueryBranch \o <<"#">> \o CommitA],
      [name |-> "foo", version |-> "1.0.0",
       source |-> GitHttps \o GithubHost \o PathOR \o QueryTag \o <<"#">> \o CommitA],
      [name |-> "foo", version |-> "2.0.0",
       source |-> GitHttps \o GithubHost \o PathOR \o QueryRev \o <<"#">> \o CommitB],
      [name |-> "bar", version |-> "1.0.0",
       source |-> GitHttps \o ExampleHost \o PathO_R \o <<"#">> \o CommitA],
      [name |-> "bar", version |-> "1.0.0",
       source |-> GitHttps \o ExampleHost \o PathO_R \o QueryBranch \o <<"#">> \o CommitA],
      [name |-> "bar", version |-> "1.0.0",
       source |-> GitHttps \o ExampleHost \o PathO_R \o QueryBranch \o <<"&">> \o Tail(QueryTag)
                      \o <<"&">> \o Tail(QueryRev) \o <<"#">> \o CommitA],
      [name |-> "bar", version |-> "1.0.0",
       source |-> GitHttps \o ExampleHost \o PathO_R \o QueryBranch \o <<"&">> \o Tail(QueryTag)
                      \o <<"#">> \o CommitA],
      [name |-> "bar", version |-> "2.0.0",
       source |-> GitHttps \o GithubHost \o PathOR \o <<"#">> \o CommitC],
      [name |-> "foo", version |-> "1.0.0",
       source |-> GitHttps \o ExampleHost \o PathOR],
      [name |-> "qux", version |-> "1.0.0",
       source |-> GitHttps \o ExampleHost \o PathOR \o <<"#">> \o CommitA] }

\* The sequences of at most n distinct entries.
RECURSIVE PackageLists(_)
PackageLists(n) ==
    IF n = 0 THEN {<<>>}
    ELSE PackageLists(n - 1) \cup
         {Append(l, e) : l \in {k \in PackageLists(n - 1) : Len(k) = n - 1},
                         e \in LockEntries}

HasDuplicates(l) == \E i, j \in 1..Len(l) : i < j /\ l[i] = l[j]

\* The key of a package's checksum in the lock file's metadata.
checksum_key(name, version, source) ==
    "checksum " \o name \o " " \o version \o " (" \o Join(source) \o ")"

\* The metadata tables of the model: one that holds foo 1.0.0's checksum, and
\* one that holds only the checksum of another version of foo.
MetadataTables ==
    {[k \in {checksum_key("foo", "1.0.0", RegistrySource)} |-> "def456"],
     [k \in {checksum_key("foo", "2.0.0", RegistrySource)} |-> "0f0f0f"]}

LockFiles ==
    LET lists == {l \in PackageLists(MaxPackages) : l /= <<>> /\ ~HasDuplicates(l)}
    IN  {[package |-> l] : l \in lists}
        \cup {[package |-> l, metadata |-> m] : l \in lists, m \in MetadataTables}

(***************************************************************************)
(* The environment: the remote repositories                                *)
(***************************************************************************)

\* The commits a remote repository holds.
RemoteCommits(u) ==
    IF u = GithubRepo THEN {CommitA, CommitB, CommitC} ELSE {CommitA}

\* The commits a fresh clone of the repository can have checked out.
DefaultHeads(u) == IF u = GithubRepo THEN {CommitA, CommitC} ELSE {CommitA}

\* A Cargo.toml that declares a package, as get_cargo_toml_packages records
\* it: _GitPackage(path, package, workspace).
GitPackage(path, name) ==
    [path |-> path,
     package |-> TDict(<<Item("package", TDict(<<Item("name", TStr(name))>>))>>),
     workspace |-> PyNone]

NoPackages == [n \in {} |-> GitPackage(".", n)]

\* The packages that the scan of a working copy finds: those of the tree of
\* the commit checked out.
TreePackages(origin, head) ==
    IF origin = GithubRepo /\ head = CommitA
        THEN [n \in {"foo", "bar"} |->
                 IF n = "foo" THEN GitPackage(".", n) ELSE GitPackage("crates/bar", n)]
    ELSE IF origin = GithubRepo /\ head = CommitB
        THEN [n \in {"foo"} |-> GitPackage("foo", n)]
    ELSE IF origin = GithubRepo /\ head = CommitC
        THEN [n \in {"bar"} |-> GitPackage(".", n)]
    ELSE IF origin = ExampleRepo2
        THEN [n \in {"bar"} |-> GitPackage(".", n)]
    ELSE IF origin = ExampleRepo
        THEN [n \in {"foo"} |-> GitPackage(".", n)]
    ELSE NoPackages

\* _GitPackage.normalized: the merge is made on a deep copy of the package.
normalized(git_pkg) ==
    IF git_pkg.workspace = PyNone THEN git_pkg.package
    ELSE update_workspace_keys(git_pkg.package, git_pkg.workspace)

(***************************************************************************)
(* The run: Init                                                           *)
(***************************************************************************)

\* The locals of a task; ops: the git commands fetch_git_repo has run with
\* success, in order.
EmptyFrame ==
    [commit |-> <<>>, repo_url |-> <<>>, clone_dir |-> "", head |-> <<>>, ops |-> <<>>]

NotWritten == [written |-> FALSE]

\* No manifest is being normalized.
ManifestIdle ==
    /\ the_pkg = PyNone
    /\ other_pkg = PyNone
    /\ norm_first = NotYet
    /\ norm_other = NotYet
    /\ norm_second = NotYet
    /\ remerged = NotYet
    /\ tree = PyNone
    /\ found = NotYet

RunIdle ==
    /\ cargo_lock = [package |-> <<>>]
    /\ git_tarballs = FALSE
    /\ main_pc = "idle"
    /\ pc = <<>>
    /\ frame = <<>>
    /\ result = <<>>
    /\ cur = 0
    /\ ready = <<>>
    /\ git_repos = <<>>
    /\ disk = <<>>
    /\ calls = <<>>
    /\ repo_pc = <<>>
    /\ repo_result = <<>>
    /\ sources = <<>>
    /\ outfile = NotWritten

Tasks == 1..Len(cargo_lock.package)

\* main has parsed its arguments and loaded the lock file; generate_sources
\* has made one get_package_sources coroutine per package and awaits their
\* gather, which has queued them in order.
Init ==
    /\ url = [prefix |-> <<>>, scheme |-> <<>>, host |-> <<>>, path |-> <<>>, tail |-> <<>>]
    /\ canon = NotYet
    /\ recanon = NotYet
    /\ alt = NotYet
    /\ rel = "none"
    /\ alt_canon = NotYet
    /\ ManifestIdle
    /\ cargo_lock \in LockFiles
    /\ git_tarballs \in BOOLEAN
    /\ main_pc = "gather_packages"
    /\ pc = [t \in Tasks |-> "created"]
    /\ frame = [t \in Tasks |-> EmptyFrame]
    /\ result = [t \in Tasks |-> NotYet]
    /\ cur = 0
    /\ ready = [t \in Tasks |-> t]
    /\ git_repos = <<>>
    /\ disk = <<>>
    /\ calls = <<>>
    /\ repo_pc = <<>>
    /\ repo_result = <<>>
    /\ sources = <<>>
    /\ outfile = NotWritten

(***************************************************************************)
(* The run: the get_package_sources tasks                                  *)
(***************************************************************************)

Package(t) == cargo_lock.package[t]

Raised(exception) == [kind |-> "raise", exception |-> exception]

Returned(pkg_sources, vendored_entry) ==
    [kind |-> "return", sources |-> pkg_sources, vendored |-> vendored_entry]

ReturnedNone == [kind |-> "none"]

HasRepo(repos, u) == \E i \in 1..Len(repos) : repos[i].url = u

RepoIndex(u) == CHOOSE i \in 1..Len(git_repos) : git_repos[i].url = u

\* git_repos.setdefault(repo_url, {'commits': {}, 'lock': asyncio.Lock()})
setdefault(repos, u) ==
    IF HasRepo(repos, u) THEN repos
    ELSE Append(repos, [url |-> u, commits |-> <<>>,
                        lock |-> [locked |-> FALSE, waiters |-> <<>>]])

\* commit in git_repo['commits']
memo_has(repo, commit) == dict_has(repo.commits, commit)

\* Whether a task that runs a git subprocess is suspended while it runs.
\* subprocess.run returns when the subprocess has ended and is not awaited:
\* the event loop runs no other task meanwhile.
\* A plausible slip: the subprocess is awaited (asyncio's subprocesses).
subprocess_suspends_awaited == TRUE

subprocess_suspends == FALSE

\* The first lines of get_git_package_sources: the commit, the assertion on
\* it, the canonical URL, and the entry of git_repos.
\* A plausible slip: the assertion comes after the entry is made.
git_package_start_late_assert(source, repos) ==
    LET commit == urlparse(source).fragment
        repo_url == geturl(canonical_url(source))
    IN  [raise |-> commit = <<>>, commit |-> commit, repo_url |-> repo_url,
         git_repos |-> setdefault(repos, repo_url)]

git_package_start(source, repos) ==
    LET commit == urlparse(source).fragment
        repo_url == geturl(canonical_url(source))
    IN  IF commit = <<>>
        THEN [raise |-> TRUE, commit |-> commit, repo_url |-> <<>>, git_repos |-> repos]
        ELSE [raise |-> FALSE, commit |-> commit, repo_url |-> repo_url,
              git_repos |-> setdefault(repos, repo_url)]

\* The event loop takes the next ready task (call_soon: in the order queued).
Dispatch ==
    /\ main_pc = "gather_packages"
    /\ cur = 0
    /\ ready /= <<>>
    /\ cur' = Head(ready)
    /\ ready' = Tail(ready)
    /\ UNCHANGED <<url_vars, manifest_vars, cargo_lock, git_tarballs, main_pc, pc, frame, result,
                   git_repos, disk, calls, repo_pc, repo_result, sources, outfile>>

\* A plausible slip: an entry without source is taken for a registry entry.
NoSource_as_registry(t) ==
    /\ cur = t
    /\ pc[t] = "created"
    /\ "source" \notin DOMAIN Package(t)
    /\ result' = [result EXCEPT ![t] = Returned(<<>>, [key |-> "crates-io",
                      value |-> [replace_with |-> VENDORED_SOURCES]])]
    /\ pc' = [pc EXCEPT ![t] = "done"]
    /\ cur' = 0
    /\ UNCHANGED <<url_vars, manifest_vars, cargo_lock, git_tarballs, main_pc, frame, ready,
                   git_repos, disk, calls, repo_pc, repo_result, sources, outfile>>

\* get_package_sources, 'source' not in package: return None.
NoSource(t) ==
    /\ cur = t
    /\ pc[t] = "created"
    /\ "source" \notin DOMAIN Package(t)
    /\ result' = [result EXCEPT ![t] = ReturnedNone]
    /\ pc' = [pc EXCEPT ![t] = "done"]
    /\ cur' = 0
    /\ UNCHANGED <<url_vars, manifest_vars, cargo_lock, git_tarballs, main_pc, frame, ready,
                   git_repos, disk, calls, repo_pc, repo_result, sources, outfile>>

\* A plausible slip: the package's own checksum is looked at first.
find_checksum_inline_first(package, lock) ==
    LET key == checksum_key(package.name, package.version, package.source)
    IN  IF "checksum" \in DOMAIN package
        THEN [found |-> TRUE, checksum |-> package.checksum]
        ELSE IF "metadata" \in DOMAIN lock /\ key \in DOMAIN lock.metadata
        THEN [found |-> TRUE, checksum |-> lock.metadata[key]]
        ELSE [found |-> FALSE]

\* The checksum of a registry package: the metadata's under the package's
\* key, else the package's own, else none.
find_checksum(package, lock) ==
    LET key == checksum_key(package.name, package.version, package.source)
    IN  IF "metadata" \in DOMAIN lock /\ key \in DOMAIN lock.metadata
        THEN [found |-> TRUE, checksum |-> lock.metadata[key]]
        ELSE IF "checksum" \in DOMAIN package
        THEN [found |-> TRUE, checksum |-> package.checksum]
        ELSE [found |-> FALSE]

\* A plausible slip: the checksum file is emitted before the archive.
crate_sources_swapped(name, version, checksum) ==
    << [type |-> "inline", contents |-> json_dumps_checksum(checksum),
        dest |-> CARGO_CRATES \o "/" \o name \o "-" \o version,
        dest_filename |-> ".cargo-checksum.json"],
       [type |-> "archive", archive_type |-> "tar-gzip",
        url |-> CRATES_IO \o "/" \o name \o "/" \o name \o "-" \o version \o ".crate",
        sha256 |-> checksum,
        dest |-> CARGO_CRATES \o "/" \o name \o "-" \o version] >>

crate_sources(name, version, checksum) ==
    << [type |-> "archive", archive_type |-> "tar-gzip",
        url |-> CRATES_IO \o "/" \o name \o "/" \o name \o "-" \o version \o ".crate",
        sha256 |-> checksum,
        dest |-> CARGO_CRATES \o "/" \o name \o "-" \o version],
       [type |-> "inline", contents |-> json_dumps_checksum(checksum),
        dest |-> CARGO_CRATES \o "/" \o name \o "-" \o version,
        dest_filename |-> ".cargo-checksum.json"] >>

CratesIoEntry == [key |-> "crates-io", value |-> [replace_with |-> VENDORED_SOURCES]]

\* What get_package_sources returns for a registry package.
\* A plausible slip: a package without checksum is an error.
registry_result_strict(package, lock) ==
    LET c == find_checksum(package, lock)
    IN  IF c.found
        THEN Returned(crate_sources(package.name, package.version, c.checksum), CratesIoEntry)
        ELSE Raised("KeyError")

registry_result(package, lock) ==
    LET c == find_checksum(package, lock)
    IN  IF c.found
        THEN Returned(crate_sources(package.name, package.version, c.checksum), CratesIoEntry)
        ELSE ReturnedNone

\* get_package_sources, a source that does not start with 'git+'.
RegistrySources(t) ==
    /\ cur = t
    /\ pc[t] = "created"
    /\ "source" \in DOMAIN Package(t)
    /\ ~StartsWith(Package(t).source, GitPlusStr)
    /\ result' = [result EXCEPT ![t] = registry_result(Package(t), cargo_lock)]
    /\ pc' = [pc EXCEPT ![t] = "done"]
    /\ cur' = 0
    /\ UNCHANGED <<url_vars, manifest_vars, cargo_lock, git_tarballs, main_pc, frame, ready,
                   git_repos, disk, calls, repo_pc, repo_result, sources, outfile>>

\* get_git_package_sources up to the entry of git_repos.
GitPackageStart(t) ==
    /\ cur = t
    /\ pc[t] = "created"
    /\ "source" \in DOMAIN Package(t)
    /\ StartsWith(Package(t).source, GitPlusStr)
    /\ LET s == git_package_start(Package(t).source, git_repos)
       IN  /\ git_repos' = s.git_repos
           /\ IF s.raise
              THEN /\ result' = [result EXCEPT ![t] = Raised("AssertionError")]
                   /\ pc' = [pc EXCEPT ![t] = "failed"]
                   /\ cur' = 0
                   /\ UNCHANGED frame
              ELSE /\ frame' = [frame EXCEPT ![t].commit = s.commit,
                                             ![t].repo_url = s.repo_url]
                   /\ pc' = [pc EXCEPT ![t] = "acquire"]
                   /\ UNCHANGED <<result, cur>>
    /\ UNCHANGED <<url_vars, manifest_vars, cargo_lock, git_tarballs, main_pc, ready,
                   disk, calls, repo_pc, repo_result, sources, outfile>>

(***************************************************************************)
(* The run: the repository's lock, fetch_git_repo and the scan             *)
(***************************************************************************)

TaskRepo(t) == RepoIndex(frame[t].repo_url)

\* The steps of fetch_git_repo that run a git subprocess.
GitSteps == {"clone", "rev-parse", "fetch", "checkout", "submodule"}

\* The task is inside fetch_git_repo.
InFetch(t) == pc[t] \in GitSteps

\* After a git subprocess of task t has ended.
AfterSubprocess(t) ==
    IF subprocess_suspends
    THEN cur' = 0 /\ ready' = Append(ready, t)
    ELSE UNCHANGED <<cur, ready>>

\* Task t leaves the 'async with' of its repository, on to newpc (repos:
\* git_repos as the task leaves it). asyncio.Lock.release wakes the first
\* waiter, and acquire lets nobody pass a woken waiter, so the lock goes
\* straight to that waiter, which is made ready; with no waiter it is free.
LeaveLock(t, newpc, repos) ==
    LET i == TaskRepo(t)
        w == repos[i].lock.waiters
    IN  IF w = <<>>
        THEN /\ git_repos' = [repos EXCEPT ![i].lock.locked = FALSE]
             /\ pc' = [pc EXCEPT ![t] = newpc]
             /\ UNCHANGED ready
        ELSE /\ git_repos' = [repos EXCEPT ![i].lock.waiters = Tail(w)]
             /\ pc' = [pc EXCEPT ![t] = newpc, ![Head(w)] = "locked"]
             /\ ready' = Append(ready, Head(w))

\* A plausible slip: the exception leaves the lock held.
RaiseInLock_keeps_lock(t, exception) ==
    /\ pc' = [pc EXCEPT ![t] = "failed"]
    /\ result' = [result EXCEPT ![t] = Raised(exception)]
    /\ cur' = 0
    /\ UNCHANGED <<git_repos, ready>>

\* An exception raised inside the 'async with': the lock is released and the
\* task ends with the exception.
RaiseInLock(t, exception) ==
    /\ LeaveLock(t, "failed", git_repos)
    /\ result' = [result EXCEPT ![t] = Raised(exception)]
    /\ cur' = 0

\* A plausible slip: the task goes on without taking the lock.
Acquire_without_lock(t) ==
    /\ cur = t
    /\ pc[t] = "acquire"
    /\ pc' = [pc EXCEPT ![t] = "locked"]
    /\ UNCHANGED <<url_vars, manifest_vars, cargo_lock, git_tarballs, main_pc, frame, result, ready,
                   cur, git_repos, disk, calls, repo_pc, repo_result, sources, outfile>>

\* async with git_repo['lock'], asyncio.Lock.acquire: taken at once when free
\* and nobody waits, else the task waits for it.
Acquire(t) ==
    /\ cur = t
    /\ pc[t] = "acquire"
    /\ LET i == TaskRepo(t)
           l == git_repos[i].lock
       IN  IF ~l.locked /\ l.waiters = <<>>
           THEN /\ git_repos' = [git_repos EXCEPT ![i].lock.locked = TRUE]
                /\ pc' = [pc EXCEPT ![t] = "locked"]
                /\ UNCHANGED cur
           ELSE /\ git_repos' = [git_repos EXCEPT ![i].lock.waiters = Append(@, t)]
                /\ pc' = [pc EXCEPT ![t] = "waiting"]
                /\ cur' = 0
    /\ UNCHANGED <<url_vars, manifest_vars, cargo_lock, git_tarballs, main_pc, frame, result, ready,
                   disk, calls, repo_pc, repo_result, sources, outfile>>

\* if commit not in git_repo['commits']: the memo entry is there.
MemoHit(t) ==
    /\ cur = t
    /\ pc[t] = "locked"
    /\ memo_has(git_repos[TaskRepo(t)], frame[t].commit)
    /\ pc' = [pc EXCEPT ![t] = "release"]
    /\ UNCHANGED <<url_vars, manifest_vars, cargo_lock, git_tarballs, main_pc, frame, result, cur,
                   ready, git_repos, disk, calls, repo_pc, repo_result, sources,
                   outfile>>

\* The URL of a lock entry's source as written: without 'git+' and without
\* the fragment.
RawUrl(source) ==
    LET s == DropFirst(source, Len(GitPlusStr))
        h == FindAny(s, {"#"})
    IN  IF h = 0 THEN s ELSE TakeFirst(s, h - 1)

\* A plausible slip: the working copy's directory is made from the URL as
\* written in the lock file.
MemoMiss_raw_url(t) ==
    /\ cur = t
    /\ pc[t] = "locked"
    /\ ~memo_has(git_repos[TaskRepo(t)], frame[t].commit)
    /\ calls' = Append(calls, [task |-> t, url |-> frame[t].repo_url,
                               commit |-> frame[t].commit])
    /\ LET dir == clone_dir_of(RawUrl(Package(t).source))
       IN  /\ frame' = [frame EXCEPT ![t].clone_dir = dir]
           /\ pc' = [pc EXCEPT ![t] = IF dir \in DOMAIN disk THEN "rev-parse" ELSE "clone"]
    /\ UNCHANGED <<url_vars, manifest_vars, cargo_lock, git_tarballs, main_pc, result, cur, ready,
                   git_repos, disk, repo_pc, repo_result, sources, outfile>>

\* The memo entry is not there: get_git_repo_packages is called and
\* fetch_git_repo looks for the working copy.
MemoMiss(t) ==
    /\ cur = t
    /\ pc[t] = "locked"
    /\ ~memo_has(git_repos[TaskRepo(t)], frame[t].commit)
    /\ calls' = Append(calls, [task |-> t, url |-> frame[t].repo_url,
                               commit |-> frame[t].commit])
    /\ LET dir == clone_dir_of(frame[t].repo_url)
       IN  /\ frame' = [frame EXCEPT ![t].clone_dir = dir]
           /\ pc' = [pc EXCEPT ![t] = IF dir \in DOMAIN disk THEN "rev-parse" ELSE "clone"]
    /\ UNCHANGED <<url_vars, manifest_vars, cargo_lock, git_tarballs, main_pc, result, cur, ready,
                   git_repos, disk, repo_pc, repo_result, sources, outfile>>

\* git clone --depth=1 succeeds: the working copy holds the remote's head.
Clone(t) ==
    /\ cur = t
    /\ pc[t] = "clone"
    /\ \E head \in DefaultHeads(frame[t].repo_url) :
           disk' = [d \in DOMAIN disk \cup {frame[t].clone_dir} |->
                       IF d = frame[t].clone_dir
                       THEN [origin |-> frame[t].repo_url, head |-> head]
                       ELSE disk[d]]
    /\ pc' = [pc EXCEPT ![t] = "rev-parse"]
    /\ frame' = [frame EXCEPT ![t].ops = Append(@, "clone")]
    /\ AfterSubprocess(t)
    /\ UNCHANGED <<url_vars, manifest_vars, cargo_lock, git_tarballs, main_pc, result,
                   git_repos, calls, repo_pc, repo_result, sources, outfile>>

\* A plausible slip: HEAD and the commit are compared in full.
RevParse_full_hash(t) ==
    /\ cur = t
    /\ pc[t] = "rev-parse"
    /\ LET head == disk[frame[t].clone_dir].head
       IN  /\ frame' = [frame EXCEPT ![t].head = head, ![t].ops = Append(@, "rev-parse")]
           /\ pc' = [pc EXCEPT ![t] = IF head /= frame[t].commit THEN "fetch" ELSE "submodule"]
    /\ AfterSubprocess(t)
    /\ UNCHANGED <<url_vars, manifest_vars, cargo_lock, git_tarballs, main_pc, result,
                   git_repos, disk, calls, repo_pc, repo_result, sources, outfile>>

\* git rev-parse HEAD succeeds; the short forms of HEAD and of the commit
\* decide whether to fetch.
RevParse(t) ==
    /\ cur = t
    /\ pc[t] = "rev-parse"
    /\ LET head == disk[frame[t].clone_dir].head
       IN  /\ frame' = [frame EXCEPT ![t].head = head, ![t].ops = Append(@, "rev-parse")]
           /\ pc' = [pc EXCEPT ![t] =
                        IF TakeFirst(head, COMMIT_LEN) /= TakeFirst(frame[t].commit, COMMIT_LEN)
                        THEN "fetch" ELSE "submodule"]
    /\ AfterSubprocess(t)
    /\ UNCHANGED <<url_vars, manifest_vars, cargo_lock, git_tarballs, main_pc, result,
                   git_repos, disk, calls, repo_pc, repo_result, sources, outfile>>

\* git fetch origin <commit> succeeds: the working copy's remote has it.
Fetch(t) ==
    /\ cur = t
    /\ pc[t] = "fetch"
    /\ frame[t].commit \in RemoteCommits(disk[frame[t].clone_dir].origin)
    /\ pc' = [pc EXCEPT ![t] = "checkout"]
    /\ frame' = [frame EXCEPT ![t].ops = Append(@, "fetch")]
    /\ AfterSubprocess(t)
    /\ UNCHANGED <<url_vars, manifest_vars, cargo_lock, git_tarballs, main_pc, result,
                   git_repos, disk, calls, repo_pc, repo_result, sources, outfile>>

\* A plausible slip: the checkout leaves HEAD where it was.
Checkout_keeps_head(t) ==
    /\ cur = t
    /\ pc[t] = "checkout"
    /\ pc' = [pc EXCEPT ![t] = "submodule"]
    /\ frame' = [frame EXCEPT ![t].ops = Append(@, "checkout")]
    /\ AfterSubprocess(t)
    /\ UNCHANGED <<url_vars, manifest_vars, cargo_lock, git_tarballs, main_pc, result,
                   git_repos, disk, calls, repo_pc, repo_result, sources, outfile>>

\* git checkout <commit> succeeds.
Checkout(t) ==
    /\ cur = t
    /\ pc[t] = "checkout"
    /\ disk' = [disk EXCEPT ![frame[t].clone_dir].head = frame[t].commit]
    /\ pc' = [pc EXCEPT ![t] = "submodule"]
    /\ frame' = [frame EXCEPT ![t].ops = Append(@, "checkout")]
    /\ AfterSubprocess(t)
    /\ UNCHANGED <<url_vars, manifest_vars, cargo_lock, git_tarballs, main_pc, result,
                   git_repos, calls, repo_pc, repo_result, sources, outfile>>

\* git submodule update --init --recursive succeeds.
Submodule(t) ==
    /\ cur = t
    /\ pc[t] = "submodule"
    /\ pc' = [pc EXCEPT ![t] = "scan"]
    /\ frame' = [frame EXCEPT ![t].ops = Append(@, "submodule")]
    /\ AfterSubprocess(t)
    /\ UNCHANGED <<url_vars, manifest_vars, cargo_lock, git_tarballs, main_pc, result,
                   git_repos, disk, calls, repo_pc, repo_result, sources, outfile>>

\* A git subprocess exits non-zero (check=True): CalledProcessError leaves
\* fetch_git_repo, get_git_repo_packages and the 'async with'.
GitFails(t) ==
    /\ cur = t
    /\ InFetch(t)
    /\ RaiseInLock(t, "CalledProcessError")
    /\ UNCHANGED <<url_vars, manifest_vars, cargo_lock, git_tarballs, main_pc, frame,
                   disk, calls, repo_pc, repo_result, sources, outfile>>

\* get_cargo_toml_packages over the working copy, the assertion that it found
\* packages, and the memo entry written with what get_git_repo_packages
\* returned.
Scan(t) ==
    /\ cur = t
    /\ pc[t] = "scan"
    /\ LET wc == disk[frame[t].clone_dir]
           packages == TreePackages(wc.origin, wc.head)
           i == TaskRepo(t)
       IN  IF DOMAIN packages = {}
           THEN RaiseInLock(t, "AssertionError")
           ELSE /\ git_repos' = [git_repos EXCEPT ![i].commits =
                                    dict_set(@, frame[t].commit, packages)]
                /\ pc' = [pc EXCEPT ![t] = "release"]
                /\ UNCHANGED <<result, cur, ready>>
    /\ UNCHANGED <<url_vars, manifest_vars, cargo_lock, git_tarballs, main_pc, frame,
                   disk, calls, repo_pc, repo_result, sources, outfile>>

\* A plausible slip: the task leaves the 'async with' and keeps the lock.
Release_keeps_lock(t) ==
    /\ cur = t
    /\ pc[t] = "release"
    /\ pc' = [pc EXCEPT ![t] = "build"]
    /\ UNCHANGED <<url_vars, manifest_vars, cargo_lock, git_tarballs, main_pc, frame, result, cur,
                   ready, git_repos, disk, calls, repo_pc, repo_result, sources, outfile>>

\* The end of the 'async with': the lock is released.
Release(t) ==
    /\ cur = t
    /\ pc[t] = "release"
    /\ LeaveLock(t, "build", git_repos)
    /\ UNCHANGED <<url_vars, manifest_vars, cargo_lock, git_tarballs, main_pc, frame, result, cur,
                   disk, calls, repo_pc, repo_result, sources, outfile>>

(***************************************************************************)
(* The run: the rest of get_git_package_sources                            *)
(***************************************************************************)

\* s.split(c)
RECURSIVE SplitOn(_, _)
SplitOn(s, c) ==
    LET i == FindAny(s, {c})
    IN  IF i = 0 THEN <<s>>
        ELSE <<TakeFirst(s, i - 1)>> \o SplitOn(DropFirst(s, i), c)

\* parse_qs(query).get(name): the values of the query's name=value pairs for
\* that name that are not blank, in order (none: Python's None).
parse_qs_get(query, name) ==
    LET pairs == SplitOn(query, "&")
        value(pair) ==
            LET eq == FindAny(pair, {"="})
            IN  IF eq > 0 /\ TakeFirst(pair, eq - 1) = name THEN DropFirst(pair, eq)
                ELSE <<>>
    IN  SelectSeq([k \in 1..Len(pairs) |-> value(pairs[k])], LAMBDA v : v /= <<>>)

\* A plausible slip: the entry has no pin.
git_vendored_entry_no_pin(repo_url, source) ==
    [raise |-> FALSE,
     entry |-> [key |-> Join(repo_url),
                value |-> [git |-> Join(repo_url), replace_with |-> VENDORED_SOURCES]]]

\* A plausible slip: every pin the query gives is written.
git_vendored_entry_every_pin(repo_url, source) ==
    LET query == urlparse(source).query
        rev == parse_qs_get(query, <<"r", "e", "v">>)
        tag == parse_qs_get(query, <<"t", "a", "g">>)
        branch == parse_qs_get(query, <<"b", "r", "a", "n", "c", "h">>)
        pins == (IF rev /= <<>> THEN <<[key |-> "rev", value |-> Join(rev[1])]>> ELSE <<>>)
                    \o (IF tag /= <<>> THEN <<[key |-> "tag", value |-> Join(tag[1])]>> ELSE <<>>)
                    \o (IF branch /= <<>>
                        THEN <<[key |-> "branch", value |-> Join(branch[1])]>> ELSE <<>>)
    IN  [raise |-> FALSE,
         entry |-> [key |-> Join(repo_url),
                    value |-> [k \in {"git", "replace_with"} \cup {pins[i].key : i \in 1..Len(pins)} |->
                                  IF k = "git" THEN Join(repo_url)
                                  ELSE IF k = "replace_with" THEN VENDORED_SOURCES
                                  ELSE pins[CHOOSE i \in 1..Len(pins) : pins[i].key = k].value]]]

\* cargo_vendored_entry of a git package, or the assertion that fails when
\* the pin it takes is given more than once.
git_vendored_entry(repo_url, source) ==
    LET query == urlparse(source).query
        rev == parse_qs_get(query, <<"r", "e", "v">>)
        tag == parse_qs_get(query, <<"t", "a", "g">>)
        branch == parse_qs_get(query, <<"b", "r", "a", "n", "c", "h">>)
        git == Join(repo_url)
        pin == IF rev /= <<>> THEN rev ELSE IF tag /= <<>> THEN tag ELSE branch
        value ==
            IF rev /= <<>>
            THEN [git |-> git, replace_with |-> VENDORED_SOURCES, rev |-> Join(rev[1])]
            ELSE IF tag /= <<>>
            THEN [git |-> git, replace_with |-> VENDORED_SOURCES, tag |-> Join(tag[1])]
            ELSE IF branch /= <<>>
            THEN [git |-> git, replace_with |-> VENDORED_SOURCES, branch |-> Join(branch[1])]
            ELSE [git |-> git, replace_with |-> VENDORED_SOURCES]
    IN  [raise |-> Len(pin) > 1, entry |-> [key |-> git, value |-> value]]

\* toml.dumps(value): the document of the value (the value stands for it).
toml_dumps(value) == [toml |-> value]

\* A plausible slip: the copy reads the working copy that the generator made
\* for its scan, not the directory that the list's fetch operation fills.
git_sources_from_clone(name, repo_url, commit, git_pkg) ==
    LET pkg_repo_dir == os_path_join(clone_dir_of(repo_url), git_pkg.path)
        dest == CARGO_CRATES \o "/" \o name
    IN  << [type |-> "shell",
            commands |-> <<"cp -r --reflink=auto \"" \o pkg_repo_dir \o "\" \""
                             \o dest \o "\"">>],
           [type |-> "inline", contents |-> toml_dumps(normalized(git_pkg)),
            dest |-> dest, dest_filename |-> "Cargo.toml"],
           [type |-> "inline", contents |-> json_dumps_no_checksum,
            dest |-> dest, dest_filename |-> ".cargo-checksum.json"] >>

\* git_sources: the copy of the package's directory, its normalized manifest
\* and its checksum file.
git_sources(name, repo_url, commit, git_pkg) ==
    LET pkg_repo_dir ==
            os_path_join(os_path_join(GIT_CACHE, git_repo_name(repo_url, commit)),
                         git_pkg.path)
        dest == CARGO_CRATES \o "/" \o name
    IN  << [type |-> "shell",
            commands |-> <<"cp -r --reflink=auto \"" \o pkg_repo_dir \o "\" \""
                             \o dest \o "\"">>],
           [type |-> "inline", contents |-> toml_dumps(normalized(git_pkg)),
            dest |-> dest, dest_filename |-> "Cargo.toml"],
           [type |-> "inline", contents |-> json_dumps_no_checksum,
            dest |-> dest, dest_filename |-> ".cargo-checksum.json"] >>

\* get_git_package_sources after the 'async with'.
GitPackageBuild(t) ==
    /\ cur = t
    /\ pc[t] = "build"
    /\ LET name == Package(t).name
           vendored == git_vendored_entry(frame[t].repo_url, Package(t).source)
           packages == dict_get(git_repos[TaskRepo(t)].commits, frame[t].commit)
       IN  IF vendored.raise
           THEN /\ result' = [result EXCEPT ![t] = Raised("AssertionError")]
                /\ pc' = [pc EXCEPT ![t] = "failed"]
           ELSE IF name \notin DOMAIN packages
           THEN /\ result' = [result EXCEPT ![t] = Raised("KeyError")]
                /\ pc' = [pc EXCEPT ![t] = "failed"]
           ELSE /\ result' = [result EXCEPT ![t] =
                                 Returned(git_sources(name, frame[t].repo_url,
                                                      frame[t].commit, packages[name]),
                                          vendored.entry)]
                /\ pc' = [pc EXCEPT ![t] = "done"]
    /\ cur' = 0
    /\ UNCHANGED <<url_vars, manifest_vars, cargo_lock, git_tarballs, main_pc, frame, ready,
                   git_repos, disk, calls, repo_pc, repo_result, sources, outfile>>

(***************************************************************************)
(* The run: generate_sources and main                                      *)
(***************************************************************************)

AllTasksEnded == \A t \in Tasks : pc[t] \in {"done", "failed"}

\* The (url, commit) pairs of git_repos, in the order generate_sources
\* walks them.
RECURSIVE RepoPairsFrom(_, _)
RepoPairsFrom(repos, i) ==
    IF i > Len(repos) THEN <<>>
    ELSE [k \in 1..Len(repos[i].commits) |->
             [url |-> repos[i].url, commit |-> repos[i].commits[k].key]]
         \o RepoPairsFrom(repos, i + 1)

\* A plausible slip: one pair per git-sourced package.
RepoPairs_per_package ==
    LET git_tasks == SelectSeq([t \in Tasks |-> t], LAMBDA t : frame[t].repo_url /= <<>>)
    IN  [k \in 1..Len(git_tasks) |->
            [url |-> frame[git_tasks[k]].repo_url, commit |-> frame[git_tasks[k]].commit]]

RepoPairs == RepoPairsFrom(git_repos, 1)

\* package_sources after the loop over the gathered results.
RECURSIVE package_sources_upto(_, _)
package_sources_upto(results, n) ==
    IF n = 0 THEN <<>>
    ELSE package_sources_upto(results, n - 1)
         \o (IF results[n].kind = "return" THEN results[n].sources ELSE <<>>)

\* A plausible slip: the first entry of an identifier is kept.
RECURSIVE cargo_vendored_sources_first_wins(_, _)
cargo_vendored_sources_first_wins(results, n) ==
    IF n = 0
    THEN <<[key |-> VENDORED_SOURCES, value |-> [directory |-> CARGO_CRATES]]>>
    ELSE LET d == cargo_vendored_sources_first_wins(results, n - 1)
         IN  IF results[n].kind = "return" /\ ~dict_has(d, results[n].vendored.key)
             THEN dict_set(d, results[n].vendored.key, results[n].vendored.value)
             ELSE d

\* cargo_vendored_sources after the loop over the gathered results.
RECURSIVE cargo_vendored_sources_upto(_, _)
cargo_vendored_sources_upto(results, n) ==
    IF n = 0
    THEN <<[key |-> VENDORED_SOURCES, value |-> [directory |-> CARGO_CRATES]]>>
    ELSE LET d == cargo_vendored_sources_upto(results, n - 1)
         IN  IF results[n].kind = "return"
             THEN dict_set(d, results[n].vendored.key, results[n].vendored.value)
             ELSE d

ConfigSource(results) ==
    [type |-> "inline",
     contents |-> toml_dumps([source |-> cargo_vendored_sources_upto(results, Len(results))]),
     dest |-> CARGO_HOME,
     dest_filename |-> "config"]

\* The list generate_sources returns.
\* A plausible slip: the package operations come before the repositories'.
generate_sources_packages_first(repo_results, results) ==
    package_sources_upto(results, Len(results))
        \o repo_results
        \o <<ConfigSource(results)>>

generate_sources_result(repo_results, results) ==
    repo_results
        \o package_sources_upto(results, Len(results))
        \o <<ConfigSource(results)>>

\* Whether 'await asyncio.gather(*coros)' raises: it does when a task has
\* ended with an exception (pcs: where each task is).
\* A plausible slip: exceptions are gathered as results (return_exceptions).
gather_raises_never(pcs) == FALSE

gather_raises(pcs) == \E k \in DOMAIN pcs : pcs[k] = "failed"

\* gather raises the exception of a task that failed. (The tasks do not
\* suspend, so all of them have ended when generate_sources runs again.)
GatherPackagesRaise ==
    /\ main_pc = "gather_packages"
    /\ AllTasksEnded
    /\ gather_raises(pc)
    /\ main_pc' = "raised"
    /\ UNCHANGED <<url_vars, manifest_vars, cargo_lock, git_tarballs, pc, frame, result, cur, ready,
                   git_repos, disk, calls, repo_pc, repo_result, sources, outfile>>

\* gather returns the results; generate_sources makes one
\* get_git_repo_sources coroutine per commit of each repository and awaits
\* their gather.
GatherPackagesReturn ==
    /\ main_pc = "gather_packages"
    /\ AllTasksEnded
    /\ ~gather_raises(pc)
    /\ main_pc' = "gather_repos"
    /\ repo_pc' = [i \in 1..Len(RepoPairs) |-> "created"]
    /\ repo_result' = [i \in 1..Len(RepoPairs) |-> NotYet]
    /\ UNCHANGED <<url_vars, manifest_vars, cargo_lock, git_tarballs, pc, frame, result, cur, ready,
                   git_repos, disk, calls, sources, outfile>>

\* get_git_repo_sources without tarballs.
RepoSourcesGit(i) ==
    /\ main_pc = "gather_repos"
    /\ repo_pc[i] = "created"
    /\ ~git_tarballs
    /\ repo_result' = [repo_result EXCEPT ![i] =
           get_git_repo_sources_result(RepoPairs[i].url, RepoPairs[i].commit, FALSE, "")]
    /\ repo_pc' = [repo_pc EXCEPT ![i] = "done"]
    /\ UNCHANGED <<url_vars, manifest_vars, cargo_lock, git_tarballs, main_pc, pc, frame, result, cur,
                   ready, git_repos, disk, calls, sources, outfile>>

\* get_git_repo_sources with tarballs, up to the download: get_git_tarball
\* gives the URL or raises.
RepoSourcesTarball(i) ==
    /\ main_pc = "gather_repos"
    /\ repo_pc[i] = "created"
    /\ git_tarballs
    /\ repo_pc' = [repo_pc EXCEPT ![i] =
           IF "raise" \in DOMAIN get_git_tarball(RepoPairs[i].url, RepoPairs[i].commit)
           THEN "failed" ELSE "download"]
    /\ UNCHANGED <<url_vars, manifest_vars, cargo_lock, git_tarballs, main_pc, pc, frame, result, cur,
                   ready, git_repos, disk, calls, repo_result, sources, outfile>>

\* get_remote_sha256 has read the tarball to its end.
Download(i) ==
    /\ main_pc = "gather_repos"
    /\ repo_pc[i] = "download"
    /\ LET pair == RepoPairs[i]
           sha256 == get_remote_sha256(get_git_tarball(pair.url, pair.commit).url)
       IN  repo_result' = [repo_result EXCEPT ![i] =
               get_git_repo_sources_result(pair.url, pair.commit, TRUE, sha256)]
    /\ repo_pc' = [repo_pc EXCEPT ![i] = "done"]
    /\ UNCHANGED <<url_vars, manifest_vars, cargo_lock, git_tarballs, main_pc, pc, frame, result, cur,
                   ready, git_repos, disk, calls, sources, outfile>>

\* The download fails (raise_for_status, a broken connection).
DownloadFails(i) ==
    /\ main_pc = "gather_repos"
    /\ repo_pc[i] = "download"
    /\ repo_pc' = [repo_pc EXCEPT ![i] = "failed"]
    /\ UNCHANGED <<url_vars, manifest_vars, cargo_lock, git_tarballs, main_pc, pc, frame, result, cur,
                   ready, git_repos, disk, calls, repo_result, sources, outfile>>

\* gather raises the exception of a get_git_repo_sources task.
GatherReposRaise ==
    /\ main_pc = "gather_repos"
    /\ gather_raises(repo_pc)
    /\ main_pc' = "raised"
    /\ UNCHANGED <<url_vars, manifest_vars, cargo_lock, git_tarballs, pc, frame, result, cur, ready,
                   git_repos, disk, calls, repo_pc, repo_result, sources, outfile>>

\* gather returns; generate_sources returns its list.
GatherReposReturn ==
    /\ main_pc = "gather_repos"
    /\ \A i \in 1..Len(repo_pc) : repo_pc[i] \in {"done", "failed"}
    /\ ~gather_raises(repo_pc)
    /\ sources' = generate_sources_result(repo_result, result)
    /\ main_pc' = "returned"
    /\ UNCHANGED <<url_vars, manifest_vars, cargo_lock, git_tarballs, pc, frame, result, cur, ready,
                   git_repos, disk, calls, repo_pc, repo_result, outfile>>

\* main writes the list to the output file.
WriteOutput ==
    /\ main_pc = "returned"
    /\ outfile' = [written |-> TRUE, contents |-> sources]
    /\ main_pc' = "written"
    /\ UNCHANGED <<url_vars, manifest_vars, cargo_lock, git_tarballs, pc, frame, result, cur, ready,
                   git_repos, disk, calls, repo_pc, repo_result, sources>>

Next ==
    \/ Dispatch
    \/ \E t \in Tasks : NoSource(t)
    \/ \E t \in Tasks : RegistrySources(t)
    \/ \E t \in Tasks : GitPackageStart(t)
    \/ \E t \in Tasks : Acquire(t)
    \/ \E t \in Tasks : MemoHit(t)
    \/ \E t \in Tasks : MemoMiss(t)
    \/ \E t \in Tasks : Clone(t)
    \/ \E t \in Tasks : RevParse(t)
    \/ \E t \in Tasks : Fetch(t)
    \/ \E t \in Tasks : Checkout(t)
    \/ \E t \in Tasks : Submodule(t)
    \/ \E t \in Tasks : GitFails(t)
    \/ \E t \in Tasks : Scan(t)
    \/ \E t \in Tasks : Release(t)
    \/ \E t \in Tasks : GitPackageBuild(t)
    \/ GatherPackagesRaise
    \/ GatherPackagesReturn
    \/ \E i \in 1..Len(repo_pc) : RepoSourcesGit(i)
    \/ \E i \in 1..Len(repo_pc) : RepoSourcesTarball(i)
    \/ \E i \in 1..Len(repo_pc) : Download(i)
    \/ \E i \in 1..Len(repo_pc) : DownloadFails(i)
    \/ GatherReposRaise
    \/ GatherReposReturn
    \/ WriteOutput

Spec == Init /\ [][Next]_vars

\* The steps whose effect is a computation on URLs: the first lines of
\* get_git_package_sources, the call of fetch_git_repo, the operations of a
\* git package, and get_git_repo_sources.
UrlSteps ==
    \/ \E t \in Tasks : GitPackageStart(t)
    \/ \E t \in Tasks : MemoMiss(t)
    \/ \E t \in Tasks : GitPackageBuild(t)
    \/ \E i \in 1..Len(repo_pc) : RepoSourcesGit(i)
    \/ \E i \in 1..Len(repo_pc) : RepoSourcesTarball(i)
    \/ \E i \in 1..Len(repo_pc) : Download(i)

\* The other steps of the run.
PlainSteps ==
    \/ Dispatch
    \/ \E t \in Tasks : NoSource(t)
    \/ \E t \in Tasks : RegistrySources(t)
    \/ \E t \in Tasks : Acquire(t)
    \/ \E t \in Tasks : MemoHit(t)
    \/ \E t \in Tasks : Clone(t)
    \/ \E t \in Tasks : RevParse(t)
    \/ \E t \in Tasks : Fetch(t)
    \/ \E t \in Tasks : Checkout(t)
    \/ \E t \in Tasks : Submodule(t)
    \/ \E t \in Tasks : GitFails(t)
    \/ \E t \in Tasks : Scan(t)
    \/ \E t \in Tasks : Release(t)
    \/ GatherPackagesRaise
    \/ GatherPackagesReturn
    \/ \E i \in 1..Len(repo_pc) : DownloadFails(i)
    \/ GatherReposRaise
    \/ GatherReposReturn
    \/ WriteOutput

\* ENABLED <<UrlSteps>>_vars, written out: the guards of the six actions
\* (each of them changes pc or repo_pc, and its effect is defined whenever
\* its guard holds).
UrlStepsEnabled ==
    \/ \E t \in Tasks :
           /\ cur = t
           /\ \/ /\ pc[t] = "created"
                 /\ "source" \in DOMAIN Package(t)
                 /\ StartsWith(Package(t).source, GitPlusStr)
              \/ /\ pc[t] = "locked"
                 /\ ~memo_has(git_repos[TaskRepo(t)], frame[t].commit)
              \/ pc[t] = "build"
    \/ /\ main_pc = "gather_repos"
       /\ \E i \in 1..Len(repo_pc) : repo_pc[i] \in {"created", "download"}

\* A step of UrlSteps starts in a state of UrlStepsEnabled.
UrlStepsFromEnabled == [][UrlSteps => UrlStepsEnabled]_vars

\* The run under its scheduler: asyncio.run drives one event loop in one
\* thread, which runs a callback whenever one is ready, and every git command
\* and download returns, so a step that can be taken is taken. This is weak
\* fairness of the steps; for UrlSteps it is written out with UrlStepsEnabled
\* in the place of ENABLED <<UrlSteps>>_vars.
SpecLive ==
    /\ Spec
    /\ WF_vars(PlainSteps)
    /\ ([]<>(~UrlStepsEnabled) \/ []<><<UrlSteps>>_vars)

(***************************************************************************)
(* canonical_url on a bounded set of URLs                                  *)
(***************************************************************************)

\* The longest path of an input URL, in tokens.
MaxPathTokens == 4

PathTokens == {<<"/">>, <<"R">>, DotGit, <<".", "G", "I", "T">>}

\* The paths of at most n tokens; a path that is not empty starts with '/'.
RECURSIVE PathsUpTo(_)
PathsUpTo(n) ==
    IF n = 0 THEN {<<>>}
    ELSE IF n = 1 THEN {<<>>, <<"/">>}
    ELSE PathsUpTo(n - 1) \cup
         {p \o t : p \in {q \in PathsUpTo(n - 1) : q /= <<>>}, t \in PathTokens}

UrlInputs ==
    [prefix : {<<>>, GitPlusStr},
     scheme : {HttpsStr, SshStr},
     host : {GithubHost, ExampleHost},
     path : PathsUpTo(MaxPathTokens),
     tail : {<<>>, <<"?", "r", "#", "c">>}]

\* The URL string of its parts.
Render(p) == p.prefix \o p.scheme \o SchemeSep \o p.host \o p.path \o p.tail

UrlIdle ==
    /\ canon = NotYet
    /\ recanon = NotYet
    /\ alt = NotYet
    /\ rel = "none"
    /\ alt_canon = NotYet

UrlInit ==
    /\ url \in UrlInputs
    /\ UrlIdle
    /\ ManifestIdle
    /\ RunIdle

Canonicalize ==
    /\ canon = NotYet
    /\ canon' = canonical_url(Render(url))
    /\ UNCHANGED <<url, recanon, alt, rel, alt_canon, manifest_vars, run_vars>>

Recanonicalize ==
    /\ canon /= NotYet
    /\ recanon = NotYet
    /\ recanon' = canonical_url(geturl(canon))
    /\ UNCHANGED <<url, canon, alt, rel, alt_canon, manifest_vars, run_vars>>

\* alt and its canonical form, for the change named how.
Vary(how, p) ==
    /\ canon /= NotYet
    /\ rel = "none"
    /\ rel' = how
    /\ alt' = p
    /\ alt_canon' = canonical_url(Render(p))
    /\ UNCHANGED <<url, canon, recanon, manifest_vars, run_vars>>

VaryDotGit ==
    /\ url.path /= <<>>
    /\ Vary("dotgit", [url EXCEPT !.path = @ \o DotGit])

VarySlash == Vary("slash", [url EXCEPT !.path = @ \o <<"/">>])

VaryGitPlus ==
    /\ url.prefix = <<>>
    /\ Vary("gitplus", [url EXCEPT !.prefix = GitPlusStr])

VaryCase ==
    /\ Lower(url.path) /= url.path
    /\ Vary("case", [url EXCEPT !.path = Lower(@)])

UrlNext ==
    \/ Canonicalize
    \/ Recanonicalize
    \/ VaryDotGit
    \/ VarySlash
    \/ VaryGitPlus
    \/ VaryCase

SpecUrl == UrlInit /\ [][UrlNext]_vars

(***************************************************************************)
(* _GitPackage.normalized on a bounded set of manifests                    *)
(***************************************************************************)

\* The marker of a workspace-inherited field: { workspace = true }.
Marker == TDict(<<Item("workspace", TBool(TRUE))>>)

\* The marker with keys of the member's own.
MarkerWith(items) == TDict(<<Item("workspace", TBool(TRUE))>> \o items)

\* The workspace tables of the model: [workspace.package] with a version,
\* [workspace.dependencies] with foo as a table and baz as a version, and a
\* table named dev-dependencies.
WsPackage == Item("package", TDict(<<Item("version", TStr("1.2.3"))>>))

WsDependencies ==
    Item("dependencies",
         TDict(<< Item("foo", TDict(<< Item("version", TStr("1")),
                                       Item("features", TList(<<"b">>)),
                                       Item("default-features", TBool(FALSE)) >>)),
                  Item("baz", TStr("2")) >>))

WsDevDependencies == Item("dev-dependencies", TDict(<<Item("foo", TStr("9"))>>))

Workspaces ==
    { TDict(<<WsPackage, WsDependencies>>),
      TDict(<<WsPackage, WsDependencies, WsDevDependencies>>),
      TDict(<<WsPackage, WsDevDependencies>>),
      TDict(<<Item("members", TList(<<"m">>))>>) }

\* How a member's manifest gives a dependency: not at all, as a version of
\* its own, or inherited, alone or with keys of its own.
DepShapes ==
    { PyNone,
      TStr("3"),
      Marker,
      MarkerWith(<<Item("features", TList(<<"a">>))>>),
      MarkerWith(<<Item("optional", TBool(TRUE)), Item("default-features", TBool(TRUE))>>) }

\* The dependency table of a member.
DepTable(foo, baz) ==
    TDict((IF foo = PyNone THEN <<>> ELSE <<Item("foo", foo)>>)
              \o (IF baz = PyNone THEN <<>> ELSE <<Item("baz", baz)>>))

\* Where a member's manifest holds the table.
Sections ==
    {"dependencies", "dev-dependencies", "build-dependencies",
     "target.dependencies", "target.dev-dependencies"}

SectionItem(section, table) ==
    IF section = "target.dependencies"
    THEN Item("target", TDict(<<Item("cfg(unix)", TDict(<<Item("dependencies", table)>>))>>))
    ELSE IF section = "target.dev-dependencies"
    THEN Item("target", TDict(<<Item("cfg(unix)", TDict(<<Item("dev-dependencies", table)>>))>>))
    ELSE Item(section, table)

\* A member's Cargo.toml.
Manifest(version, section, foo, baz) ==
    TDict(<< Item("package", TDict(<<Item("name", TStr("m")), Item("version", version)>>)),
             SectionItem(section, DepTable(foo, baz)) >>)

Manifests ==
    { Manifest(v, s, foo, baz) :
        v \in {TStr("0.1"), Marker}, s \in Sections,
        foo \in DepShapes, baz \in {PyNone, Marker, MarkerWith(<<Item("features", TList(<<"a">>))>>)} }

\* Another member of the workspace.
OtherManifests ==
    { Manifest(Marker, "dependencies", MarkerWith(<<Item("features", TList(<<"c">>))>>), Marker),
      Manifest(TStr("0.2"), "dev-dependencies", Marker, PyNone) }

ManifestInit ==
    /\ \E w \in Workspaces \cup {PyNone} :
           /\ the_pkg \in {[path |-> "m", package |-> m, workspace |-> w] : m \in Manifests}
           /\ other_pkg \in {[path |-> "n", package |-> m, workspace |-> w] :
                                m \in OtherManifests}
    /\ norm_first = NotYet
    /\ norm_other = NotYet
    /\ norm_second = NotYet
    /\ remerged = NotYet
    /\ tree = PyNone
    /\ found = NotYet
    /\ url = [prefix |-> <<>>, scheme |-> <<>>, host |-> <<>>, path |-> <<>>, tail |-> <<>>]
    /\ UrlIdle
    /\ RunIdle

\* A plausible slip: no deep copy, the merge is made in the stored package.
NormalizeFirst_in_place ==
    /\ norm_first = NotYet
    /\ norm_first' = normalized(the_pkg)
    /\ the_pkg' = [the_pkg EXCEPT !.package = normalized(the_pkg)]
    /\ UNCHANGED <<other_pkg, norm_other, norm_second, remerged, tree, found,
                   url_vars, run_vars>>

\* the_pkg.normalized, the first time. (The merge works on a deep copy: the
\* stored package and workspace are as they were.)
NormalizeFirst ==
    /\ norm_first = NotYet
    /\ norm_first' = normalized(the_pkg)
    /\ UNCHANGED <<the_pkg, other_pkg, norm_other, norm_second, remerged, tree, found,
                   url_vars, run_vars>>

\* other_pkg.normalized, between the two.
NormalizeOther ==
    /\ norm_first /= NotYet
    /\ norm_other = NotYet
    /\ norm_second = NotYet
    /\ norm_other' = normalized(other_pkg)
    /\ UNCHANGED <<the_pkg, other_pkg, norm_first, norm_second, remerged, tree, found,
                   url_vars, run_vars>>

\* the_pkg.normalized, the second time.
NormalizeSecond ==
    /\ norm_first /= NotYet
    /\ norm_second = NotYet
    /\ norm_second' = normalized(the_pkg)
    /\ UNCHANGED <<the_pkg, other_pkg, norm_first, norm_other, remerged, tree, found,
                   url_vars, run_vars>>

\* update_workspace_keys applied to the normalized manifest.
Remerge ==
    /\ norm_first /= NotYet
    /\ remerged = NotYet
    /\ the_pkg.workspace /= PyNone
    /\ remerged' = update_workspace_keys(norm_first, the_pkg.workspace)
    /\ UNCHANGED <<the_pkg, other_pkg, norm_first, norm_other, norm_second, tree, found,
                   url_vars, run_vars>>

ManifestNext ==
    \/ NormalizeFirst
    \/ NormalizeOther
    \/ NormalizeSecond
    \/ Remerge

SpecManifest == ManifestInit /\ [][ManifestNext]_vars

(***************************************************************************)
(* get_git_repo_packages: the scan of a working copy                       *)
(***************************************************************************)

\* os.path.normpath of the root_dir of a directory of the scan ('.', './a',
\* './a/c': given by its segments).
normpath(root_dir) ==
    IF Len(root_dir) = 1 THEN root_dir[1]
    ELSE Join([k \in 1..(2 * Len(root_dir) - 3) |->
                  IF k % 2 = 1 THEN root_dir[(k + 3) \div 2] ELSE "/"])

\* workspace = cargo_toml.get('workspace') or workspace
manifest_workspace(cargo_toml, workspace) ==
    IF falsy(get_or_none(cargo_toml, "workspace")) THEN workspace
    ELSE get_or_none(cargo_toml, "workspace")

\* The workspace in force below a directory.
workspace_below(dir, workspace) ==
    IF dir.manifest = PyNone THEN workspace
    ELSE manifest_workspace(dir.manifest, workspace)

\* packages after the directory's own Cargo.toml has been looked at.
packages_with(dir, workspace, packages) ==
    IF key_in(dir.manifest, "package")
    THEN dict_set(packages,
                  dict_get(dict_get(dir.manifest.dict, "package").dict, "name").str,
                  [path |-> normpath(dir.root_dir),
                   package |-> dir.manifest,
                   workspace |-> workspace_below(dir, workspace)])
    ELSE packages

\* get_cargo_toml_packages(root_dir, workspace): the packages dictionary
\* after the call. (os.scandir gives the children in an order of its own:
\* the order of dir.children.)
RECURSIVE get_cargo_toml_packages(_, _, _)
RECURSIVE scan_children(_, _, _, _)
scan_children(children, n, workspace, packages) ==
    IF n = 0 THEN packages
    ELSE get_cargo_toml_packages(children[n], workspace,
                                 scan_children(children, n - 1, workspace, packages))

get_cargo_toml_packages(dir, workspace, packages) ==
    scan_children(dir.children, Len(dir.children), workspace_below(dir, workspace),
                  packages_with(dir, workspace, packages))

\* A directory of a working copy.
Dir(root_dir, manifest, children) ==
    [root_dir |-> root_dir, manifest |-> manifest, children |-> children]

\* [workspace.package] of another workspace.
WsPackage2 == Item("package", TDict(<<Item("version", TStr("2.0.0"))>>))

\* [package] of the directory named name, its version inherited.
PackageOf(name) ==
    Item("package", TDict(<<Item("name", TStr(name)), Item("version", Marker)>>))

\* What a directory can hold: no Cargo.toml, a package, a workspace with or
\* without a package, an empty [workspace] table with or without a package.
ManifestsOf(name) ==
    { PyNone,
      TDict(<<PackageOf(name)>>),
      TDict(<<Item("workspace", TDict(<<IF name \in {".", "b"} THEN WsPackage ELSE WsPackage2>>)),
              PackageOf(name)>>),
      TDict(<<Item("workspace", TDict(<<IF name \in {".", "b"} THEN WsPackage ELSE WsPackage2>>))>>),
      TDict(<<Item("workspace", TDict(<<>>)), PackageOf(name)>>),
      TDict(<<Item("workspace", TDict(<<>>))>>) }

\* The working copies of the model: the root with a and b, and c in a.
Trees ==
    { Dir(<<".">>, mr,
          << Dir(<<".", "a">>, ma, <<Dir(<<".", "a", "c">>, mc, <<>>)>>),
             Dir(<<".", "b">>, mb, <<>>) >>) :
        mr \in ManifestsOf("."), ma \in ManifestsOf("a"),
        mb \in ManifestsOf("b"), mc \in ManifestsOf("c") }

ScanInit ==
    /\ tree \in Trees
    /\ found = NotYet
    /\ the_pkg = PyNone
    /\ other_pkg = PyNone
    /\ norm_first = NotYet
    /\ norm_other = NotYet
    /\ norm_second = NotYet
    /\ remerged = NotYet
    /\ url = [prefix |-> <<>>, scheme |-> <<>>, host |-> <<>>, path |-> <<>>, tail |-> <<>>]
    /\ UrlIdle
    /\ RunIdle

\* get_cargo_toml_packages('.') and the assertion that it found packages.
ScanTree ==
    /\ found = NotYet
    /\ found' = IF get_cargo_toml_packages(tree, PyNone, <<>>) = <<>>
                THEN Raised("AssertionError")
                ELSE [packages |-> get_cargo_toml_packages(tree, PyNone, <<>>)]
    /\ UNCHANGED <<the_pkg, other_pkg, norm_first, norm_other, norm_second, remerged, tree,
                   url_vars, run_vars>>

\* git_pkg.normalized of a package the scan found.
NormalizeFound ==
    /\ "packages" \in DOMAIN found
    /\ norm_first = NotYet
    /\ \E k \in 1..Len(found.packages) :
           /\ the_pkg' = found.packages[k].value
           /\ norm_first' = normalized(found.packages[k].value)
    /\ UNCHANGED <<other_pkg, norm_other, norm_second, remerged, tree, found,
                   url_vars, run_vars>>

ScanNext ==
    \/ ScanTree
    \/ NormalizeFound

SpecScan == ScanInit /\ [][ScanNext]_vars

(***************************************************************************)
(* Claims about canonical_url                                              *)
(***************************************************************************)

\* C5: canonical_url is idempotent: canonicalizing the URL string of a
\* canonical URL gives that canonical URL again, for every source URL.
C5_Idempotent == recanon /= NotYet => recanon = canon

\* C6: URLs that differ only by a trailing '.git', a trailing slash or a
\* 'git+' prefix (before any scheme) have the same canonical URL, and so do
\* URLs on github.com that differ only by the case of the path.
C6_VariantsAgree ==
    /\ rel \in {"dotgit", "slash", "gitplus"} => alt_canon = canon
    /\ (rel = "case" /\ url.host = GithubHost) => alt_canon = canon

(***************************************************************************)
(* Claims about the run                                                    *)
(***************************************************************************)

\* The (repository, commit) pairs that the tasks have resolved.
ResolvedPairs ==
    {[url |-> frame[t].repo_url, commit |-> frame[t].commit] :
        t \in {u \in Tasks : frame[u].repo_url /= <<>>}}

\* The tasks that have been inside the 'async with' for the pair.
TasksOfPair(p) ==
    {t \in Tasks : /\ frame[t].repo_url = p.url
                   /\ frame[t].commit = p.commit
                   /\ pc[t] \in {"done", "failed", "build"}}

\* C1: get_git_repo_packages is executed exactly once for each distinct
\* (canonical repository URL, commit) pair: no two of its calls are for the
\* same pair, and a pair that a task has gone through has had its call.
C1_OnceForEachPair ==
    /\ \A i, j \in 1..Len(calls) :
           (calls[i].url = calls[j].url /\ calls[i].commit = calls[j].commit) => i = j
    /\ \A p \in ResolvedPairs :
           TasksOfPair(p) /= {} =>
               \E i \in 1..Len(calls) : calls[i].url = p.url /\ calls[i].commit = p.commit

\* C2: at most one task is inside fetch_git_repo for a given working copy.
C2_OneTaskPerWorkingCopy ==
    \A t, u \in Tasks :
        (t /= u /\ InFetch(t) /\ InFetch(u)) => frame[t].clone_dir /= frame[u].clone_dir

\* C2's case: a task is inside fetch_git_repo on a working copy that another
\* task has cloned.
C2_Witness ==
    \E t, u \in Tasks :
        /\ t /= u
        /\ InFetch(t)
        /\ frame[u].clone_dir = frame[t].clone_dir
        /\ pc[u] \in {"done", "failed"}

\* The destinations of the repositories' fetch operations.
GitCacheDests ==
    {os_path_join(GIT_CACHE, git_repo_name(u, c)) :
        u \in {GithubRepo, ExampleRepo, ExampleRepo2}, c \in {CommitA, CommitB, CommitC}}

\* A repository-fetch operation: a git clone, or the archive of a repository.
IsRepoFetch(op) ==
    \/ op.type = "git"
    \/ op.type = "archive" /\ op.dest \in GitCacheDests

\* The repository-fetch operation of a pair.
IsFetchOf(op, p) ==
    /\ IsRepoFetch(op)
    /\ IF op.type = "git"
       THEN op.url = Join(p.url) /\ op.commit = Join(p.commit)
       ELSE op.url = "https://codeload.github.com/o/r/tar.gz/" \o Join(p.commit)

Returns == main_pc \in {"returned", "written"}

\* C3: the list generate_sources returns holds exactly one repository-fetch
\* operation for each distinct resolved (repository, commit) pair.
C3_OneFetchPerPair ==
    Returns =>
        /\ \A p \in ResolvedPairs :
               Cardinality({i \in 1..Len(sources) : IsFetchOf(sources[i], p)}) = 1
        /\ Cardinality({i \in 1..Len(sources) : IsRepoFetch(sources[i])})
               = Cardinality(ResolvedPairs)

\* C3's case: two packages of the same pair, and the list returned.
C3_Witness ==
    /\ Returns
    /\ \E t, u \in Tasks :
           /\ t /= u
           /\ frame[t].repo_url /= <<>>
           /\ frame[t].repo_url = frame[u].repo_url
           /\ frame[t].commit = frame[u].commit
    /\ \E i \in 1..Len(sources) : IsRepoFetch(sources[i])

\* The configuration file of the package manager.
IsConfig(op) == op.type = "inline" /\ op.dest = "cargo" /\ op.dest_filename = "config"

\* The operations of the first n lock entries, in the lock file's order.
RECURSIVE InLockOrder(_)
InLockOrder(n) ==
    IF n = 0 THEN <<>>
    ELSE InLockOrder(n - 1) \o (IF result[n].kind = "return" THEN result[n].sources ELSE <<>>)

\* C4: the list returned holds first the repository-fetch operations, then
\* the packages' operations in the order of the lock file's entries, and
\* last the one configuration file.
C4_Ordered ==
    Returns =>
        LET n == Len(sources)
            k == Cardinality({i \in 1..n : IsRepoFetch(sources[i])})
        IN  /\ n >= 1
            /\ \A i \in 1..n : IsRepoFetch(sources[i]) <=> i <= k
            /\ \A i \in 1..n : IsConfig(sources[i]) <=> i = n
            /\ SubSeq(sources, k + 1, n - 1) = InLockOrder(Len(result))

\* C4's case: a list with a repository-fetch operation and the operations of
\* two lock entries.
C4_Witness ==
    /\ Returns
    /\ \E i \in 1..Len(sources) : IsRepoFetch(sources[i])
    /\ Len(result) >= 2
    /\ \A t \in Tasks : result[t].kind = "return"

\* C7: when a resolution has failed, generate_sources returns no list and
\* main writes no file; a file that is written holds the complete list of a
\* run in which every resolution succeeded.
C7_NoPartialOutput ==
    /\ ((\E t \in Tasks : pc[t] = "failed") \/ (\E i \in 1..Len(repo_pc) : repo_pc[i] = "failed"))
           => (sources = <<>> /\ outfile = NotWritten)
    /\ main_pc = "raised" => outfile = NotWritten
    /\ outfile /= NotWritten =>
           /\ main_pc = "written"
           /\ outfile.contents = sources
           /\ Len(sources) = Len(repo_pc) + Len(InLockOrder(Len(result))) + 1

\* C7's case: one resolution has failed where another had succeeded, and the
\* run has ended without a file.
C7_Witness ==
    /\ main_pc = "raised"
    /\ \E t, u \in Tasks :
           /\ result[t] = Raised("KeyError")
           /\ pc[u] = "done"
           /\ result[u].kind = "return"
    /\ outfile = NotWritten

\* A registry entry with no checksum, neither in the metadata nor its own.
RegistryNoChecksum(t) ==
    /\ "source" \in DOMAIN Package(t)
    /\ ~StartsWith(Package(t).source, GitPlusStr)
    /\ "checksum" \notin DOMAIN Package(t)
    /\ \/ "metadata" \notin DOMAIN cargo_lock
       \/ checksum_key(Package(t).name, Package(t).version, Package(t).source)
              \notin DOMAIN cargo_lock.metadata

\* The results of the tasks, that of task t left out.
WithoutTask(t) == SubSeq(result, 1, t - 1) \o SubSeq(result, t + 1, Len(result))

\* C8: a registry entry without checksum raises no error and yields nothing,
\* and the list returned is the one of the other entries, ending with the
\* configuration file.
C8_NoChecksumSkipped ==
    \A t \in Tasks :
        RegistryNoChecksum(t) =>
            /\ pc[t] /= "failed"
            /\ pc[t] = "done" => result[t] = ReturnedNone
            /\ Returns =>
                   /\ sources = generate_sources_result(repo_result, WithoutTask(t))
                   /\ IsConfig(sources[Len(sources)])

\* C8's case: the list returned for a registry entry without checksum and
\* another entry that has operations.
C8_Witness ==
    /\ Returns
    /\ \E t, u \in Tasks :
           /\ RegistryNoChecksum(t)
           /\ result[u].kind = "return"

\* A git entry with no commit: nothing follows the '#', or there is none.
NoCommit(t) ==
    /\ "source" \in DOMAIN Package(t)
    /\ StartsWith(Package(t).source, GitPlusStr)
    /\ FindAny(Package(t).source, {"#"}) \in {0, Len(Package(t).source)}

\* C9: a git entry with no commit fails before shared state is touched: it
\* makes no entry in git_repos, takes no lock and starts no clone.
C9_NoCommitFailsFirst ==
    /\ \A t \in Tasks :
           NoCommit(t) =>
               /\ pc[t] \in {"created", "failed"}
               /\ pc[t] = "failed" => result[t] = Raised("AssertionError")
               /\ frame[t] = EmptyFrame
               /\ \A k \in 1..Len(calls) : calls[k].task /= t
    /\ \A i \in 1..Len(git_repos) :
           \E t \in Tasks : ~NoCommit(t) /\ frame[t].repo_url = git_repos[i].url

\* C9's case: a git entry with no commit has failed, and git_repos holds the
\* one entry that another lock entry of the same repository has made.
C9_Witness ==
    \E t, u \in Tasks :
        /\ NoCommit(t)
        /\ pc[t] = "failed"
        /\ pc[u] \in {"done", "failed"}
        /\ frame[u].repo_url = ExampleRepo
        /\ Len(git_repos) = 1

\* The lock file's metadata holds the key of the entry's checksum.
InMetadata(t) ==
    /\ "metadata" \in DOMAIN cargo_lock
    /\ "source" \in DOMAIN Package(t)
    /\ checksum_key(Package(t).name, Package(t).version, Package(t).source)
           \in DOMAIN cargo_lock.metadata

\* A registry entry and its checksum.
RegistryChecksum(t, c) ==
    /\ "source" \in DOMAIN Package(t)
    /\ ~StartsWith(Package(t).source, GitPlusStr)
    /\ \/ c = "def456" /\ InMetadata(t)
       \/ /\ c = "abc123"
          /\ "checksum" \in DOMAIN Package(t)
          /\ ~InMetadata(t)

\* C10: a registry entry n v with checksum c yields the archive of
\* '<crates base>/n/n-v.crate' with sha256 c for 'cargo/vendor/n-v', then the
\* file '.cargo-checksum.json' there, and the entry of 'crates-io'.
C10_RegistryOperations ==
    \A t \in Tasks : \A c \in {"abc123", "def456"} :
        (RegistryChecksum(t, c) /\ pc[t] = "done") =>
            LET n == Package(t).name
                v == Package(t).version
            IN  /\ result[t].kind = "return"
                /\ Len(result[t].sources) = 2
                /\ result[t].sources[1] =
                       [type |-> "archive", archive_type |-> "tar-gzip",
                        url |-> "https://static.crates.io/crates/" \o n \o "/" \o n \o "-"
                                    \o v \o ".crate",
                        sha256 |-> c,
                        dest |-> "cargo/vendor/" \o n \o "-" \o v]
                /\ result[t].sources[2] =
                       [type |-> "inline",
                        contents |-> "{\"package\": \"" \o c \o "\", \"files\": {}}",
                        dest |-> "cargo/vendor/" \o n \o "-" \o v,
                        dest_filename |-> ".cargo-checksum.json"]
                /\ result[t].vendored =
                       [key |-> "crates-io", value |-> [replace_with |-> "vendored-sources"]]

\* C10's case: the registry entry foo 1.0.0 with checksum abc123, resolved.
C10_Witness ==
    \E t \in Tasks :
        /\ RegistryChecksum(t, "abc123")
        /\ pc[t] = "done"
        /\ Package(t).name = "foo"
        /\ Package(t).version = "1.0.0"

\* The lock file of the one git entry bar of
\* 'git+https://ex.io/o_r?branch=m#1234567a'.
OneBranchEntry ==
    /\ Len(cargo_lock.package) = 1
    /\ cargo_lock.package[1].name = "bar"
    /\ cargo_lock.package[1].source
           = GitHttps \o ExampleHost \o PathO_R \o QueryBranch \o <<"#">> \o CommitA

\* C11: a lock file with the single git entry p of
\* 'git+https://HOST/ORG/REPO?branch=B#C' gives one clone operation, of commit
\* C, one copy of p's directory in the clone to 'cargo/vendor/p', and a
\* configuration whose entry for 'https://HOST/ORG/REPO' has branch B and
\* replace-with the vendor directory.
C11_SingleGitEntry ==
    (OneBranchEntry /\ Returns) =>
        /\ Len(sources) = 5
        /\ sources[1] = [type |-> "git", url |-> "https://ex.io/o_r",
                         commit |-> "1234567a", dest |-> "flatpak-cargo/git/o_r-1234567"]
        /\ sources[2] =
               [type |-> "shell",
                commands |-> <<"cp -r --reflink=auto \"flatpak-cargo/git/o_r-1234567/.\" "
                                 \o "\"cargo/vendor/bar\"">>]
        /\ \A i \in 3..5 : sources[i].type = "inline"
        /\ IsConfig(sources[5])
        /\ sources[5].contents.toml.source =
               << [key |-> "vendored-sources", value |-> [directory |-> "cargo/vendor"]],
                  [key |-> "https://ex.io/o_r",
                   value |-> [git |-> "https://ex.io/o_r",
                              replace_with |-> "vendored-sources",
                              branch |-> "m"]] >>

\* C11's case: the list returned for that lock file.
C11_Witness == OneBranchEntry /\ Returns /\ ~git_tarballs

(***************************************************************************)
(* Claims about the workspace merge                                        *)
(***************************************************************************)

\* The keys of a table.
KeysOf(table) == {table.dict[i].key : i \in 1..Len(table.dict)}

\* The dependency table of a manifest built by Manifest: the second item,
\* directly or under target.'cfg(unix)'.
SectionTable(m) ==
    IF m.dict[2].key = "target"
    THEN m.dict[2].value.dict[1].value.dict[1].value
    ELSE m.dict[2].value

\* The version field of [package].
PackageVersion(m) == dict_get(m.dict[1].value.dict, "version")

\* The workspace's value for [package] version, None without one.
WorkspaceVersion(w) == get_or_none(get_or_none(w, "package"), "version")

\* What the merge of the member's table mine with the workspace's table
\* theirs has to be: no marker, the member's features followed by the
\* workspace's, the workspace's value under every other key of the workspace,
\* and the member's own keys as they were.
MergedAsClaimed(got, mine, theirs) ==
    /\ isdict(got)
    /\ KeysOf(got) = (KeysOf(mine) \ {"workspace"}) \cup KeysOf(theirs)
    /\ \A k \in KeysOf(theirs) :
           IF k = "features" /\ key_in(mine, "features")
           THEN dict_get(got.dict, k)
                    = TList(dict_get(mine.dict, k).list \o dict_get(theirs.dict, k).list)
           ELSE dict_get(got.dict, k) = dict_get(theirs.dict, k)
    /\ \A k \in KeysOf(mine) \ ({"workspace"} \cup KeysOf(theirs)) :
           dict_get(got.dict, k) = dict_get(mine.dict, k)

\* C12: in the normalized manifest of a member of a workspace, a field marked
\* as workspace-inherited holds the workspace's value for it (the package
\* version; a dependency the workspace gives as a version); an inherited
\* dependency table holds the member's features followed by the workspace's
\* and the workspace's value under every other key the workspace gives.
C12_Inherits ==
    (norm_first /= NotYet /\ the_pkg.workspace /= PyNone) =>
        /\ (PackageVersion(the_pkg.package) = Marker
                /\ WorkspaceVersion(the_pkg.workspace) /= PyNone)
           => PackageVersion(norm_first) = WorkspaceVersion(the_pkg.workspace)
        /\ \A d \in KeysOf(SectionTable(the_pkg.package)) :
               LET mine == dict_get(SectionTable(the_pkg.package).dict, d)
                   theirs == get_or_none(get_or_none(the_pkg.workspace, "dependencies"), d)
                   got == dict_get(SectionTable(norm_first).dict, d)
               IN  (key_in(mine, "workspace") /\ theirs /= PyNone) =>
                       IF isdict(theirs) THEN MergedAsClaimed(got, mine, theirs)
                       ELSE IF Len(mine.dict) = 1 THEN got = theirs
                       ELSE /\ KeysOf(got) = (KeysOf(mine) \ {"workspace"}) \cup {"version"}
                            /\ dict_get(got.dict, "version") = theirs

\* A member that inherits its version and a dependency table to which it adds
\* features of its own has been normalized.
C12_Witness ==
    /\ norm_first /= NotYet
    /\ the_pkg.workspace /= PyNone
    /\ PackageVersion(the_pkg.package) = Marker
    /\ PackageVersion(norm_first) = TStr("1.2.3")
    /\ the_pkg.package.dict[2].key = "dependencies"
    /\ key_in(SectionTable(the_pkg.package), "foo")
    /\ dict_get(SectionTable(the_pkg.package).dict, "foo")
           = MarkerWith(<<Item("features", TList(<<"a">>))>>)
    /\ dict_get(dict_get(SectionTable(norm_first).dict, "foo").dict, "features")
           = TList(<<"a", "b">>)

ConfigTable == sources[Len(sources)].contents.toml.source

\* The lock entries whose vendor-registry entry is for the identifier k.
Producers(k) == {t \in Tasks : result[t].kind = "return" /\ result[t].vendored.key = k}

\* The last of them in the lock file's order.
LastProducer(k) == CHOOSE t \in Producers(k) : \A u \in Producers(k) : u <= t

\* C13: the configuration file holds exactly one vendor-registry entry for
\* each identifier a lock entry produced one for, and it is, whole, the one of
\* the last such lock entry in the lock file's order; entries of one
\* identifier that differ make no task and no gather raise.
C13_LastWriteWins ==
    /\ Returns =>
           \A t \in Tasks :
               result[t].kind = "return" =>
                   LET k == result[t].vendored.key
                   IN  /\ Cardinality({i \in 1..Len(ConfigTable) : ConfigTable[i].key = k}) = 1
                       /\ \A i \in 1..Len(ConfigTable) :
                              ConfigTable[i].key = k =>
                                  ConfigTable[i].value = result[LastProducer(k)].vendored.value
    /\ (main_pc = "raised" /\ \A t \in Tasks : pc[t] /= "failed") =>
           \E i \in 1..Len(repo_pc) : repo_pc[i] = "failed"

\* Two lock entries of one repository with different pins, and the list
\* returned.
C13_Witness ==
    /\ Returns
    /\ \E t, u \in Tasks :
           /\ t < u
           /\ result[t].kind = "return"
           /\ result[u].kind = "return"
           /\ result[t].vendored.key = result[u].vendored.key
           /\ result[t].vendored.key /= "crates-io"
           /\ result[t].vendored.value /= result[u].vendored.value

(***************************************************************************)
(* Claims about lock entries without source                                *)
(***************************************************************************)

PathLocal(t) == "source" \notin DOMAIN Package(t)

\* C15: a lock entry without source returns None (no operation, no
\* vendor-registry entry), makes no entry in git_repos, takes no lock and
\* starts no subprocess; the repositories fetched or downloaded are those of
\* other entries, and the list returned is the one of the other entries.
C15_NoSourceNoPlan ==
    /\ \A t \in Tasks :
           PathLocal(t) =>
               /\ pc[t] \in {"created", "done"}
               /\ pc[t] = "done" => result[t] = ReturnedNone
               /\ frame[t] = EmptyFrame
               /\ \A k \in 1..Len(calls) : calls[k].task /= t
               /\ Returns => sources = generate_sources_result(repo_result, WithoutTask(t))
    /\ \A i \in 1..Len(git_repos) :
           \E t \in Tasks : ~PathLocal(t) /\ frame[t].repo_url = git_repos[i].url
    /\ (\A t \in Tasks : PathLocal(t)) => (calls = <<>> /\ Len(repo_pc) = 0 /\ DOMAIN disk = {})

\* An entry without source next to a git entry, and the list returned.
C15_Witness ==
    /\ Returns
    /\ \E t, u \in Tasks :
           /\ PathLocal(t)
           /\ result[u].kind = "return"
           /\ Len(git_repos) = 1
           /\ calls /= <<>>

(***************************************************************************)
(* Claims about the repository's lock                                      *)
(***************************************************************************)

\* Task t is inside the 'async with' of its repository.
InAsyncWith(t) == pc[t] \in {"locked", "release", "scan"} \cup GitSteps

\* The running task holds the lock of the repository of url u.
RunningHolds(u) ==
    /\ cur \in Tasks
    /\ InAsyncWith(cur)
    /\ frame[cur].repo_url = u
    /\ \E i \in 1..Len(git_repos) : git_repos[i].url = u /\ git_repos[i].lock.locked

\* A step writes a memo table or a working copy only inside the lock of the
\* repository concerned.
WritesUnderLock ==
    /\ \A i \in 1..Len(git_repos) :
           git_repos'[i].commits /= git_repos[i].commits => RunningHolds(git_repos[i].url)
    /\ \A d \in DOMAIN disk' :
           (d \notin DOMAIN disk \/ disk'[d] /= disk[d]) =>
               /\ cur \in Tasks
               /\ d = clone_dir_of(frame[cur].repo_url)
               /\ RunningHolds(frame[cur].repo_url)

\* A step makes an entry of git_repos.
MakesEntry == Len(git_repos') > Len(git_repos)

\* C16: every step that makes an entry of git_repos, writes a memo table or
\* changes a working copy is taken by a task that holds the lock of the
\* repository concerned.
C16_AllUnderLock ==
    [][/\ WritesUnderLock
       /\ MakesEntry => RunningHolds(git_repos'[Len(git_repos')].url)]_vars

\* C16 as the code has it: memo tables and working copies are written only
\* inside the repository's lock; the entry of git_repos is made by
\* setdefault before the task takes the lock, by a task that has not
\* suspended since it started, with a free lock and an empty memo table.
C16_WritesUnderLock ==
    [][/\ WritesUnderLock
       /\ MakesEntry =>
              /\ cur \in Tasks
              /\ pc[cur] = "created"
              /\ pc'[cur] = "acquire"
              /\ Len(git_repos') = Len(git_repos) + 1
              /\ git_repos'[Len(git_repos')]
                     = [url |-> frame'[cur].repo_url, commits |-> <<>>,
                        lock |-> [locked |-> FALSE, waiters |-> <<>>]]]_vars

\* Two repositories have been entered, cloned and scanned.
C16_Witness ==
    /\ Len(git_repos) = 2
    /\ \A i \in 1..2 : git_repos[i].commits /= <<>>
    /\ Cardinality(DOMAIN disk) = 2

\* C17: a task that has run a git operation is suspended by it: when the
\* operation ends the task is not the one running, the event loop having been
\* free for the other tasks meanwhile.
C17_GitOperationSuspends ==
    [][\A t \in Tasks : (InFetch(t) /\ pc'[t] /= pc[t]) => cur' /= t]_vars

(***************************************************************************)
(* Claims about fetch_git_repo                                             *)
(***************************************************************************)

\* The step is the git command op of task t, ended with success.
Ran(t, op) ==
    /\ Len(frame'[t].ops) = Len(frame[t].ops) + 1
    /\ frame'[t].ops[Len(frame'[t].ops)] = op

\* The command op is among those a call has run.
HasRun(ops, op) == \E k \in 1..Len(ops) : ops[k] = op

\* The first 7 characters of HEAD, as the call of task t read it, and of the
\* commit it asks for are the same.
SameShortForm(f) == TakeFirst(f.head, 7) = TakeFirst(f.commit, 7)

\* What holds of clone, fetch and checkout in every step: a clone runs only
\* when the working copy's directory does not exist, and no two calls that
\* succeeded in it cloned the same directory; fetch follows rev-parse exactly
\* when the short forms differ, and checkout of the commit follows fetch.
CloneFetchCheckout ==
    \A t \in Tasks :
        /\ Ran(t, "clone") =>
               /\ frame[t].clone_dir = clone_dir_of(frame[t].repo_url)
               /\ frame[t].clone_dir \notin DOMAIN disk
               /\ frame[t].ops = <<>>
        /\ \A u \in Tasks \ {t} :
               (HasRun(frame'[t].ops, "clone") /\ HasRun(frame'[u].ops, "clone"))
                   => /\ frame'[t].clone_dir /= frame'[u].clone_dir
                      /\ frame'[t].repo_url /= frame'[u].repo_url
        /\ Ran(t, "rev-parse") =>
               pc'[t] = (IF SameShortForm(frame'[t]) THEN "submodule" ELSE "fetch")
        /\ Ran(t, "fetch") => (pc[t] = "fetch" /\ pc'[t] = "checkout")
        /\ Ran(t, "checkout") =>
               /\ pc'[t] = "submodule"
               /\ disk'[frame[t].clone_dir].head = frame[t].commit
        /\ HasRun(frame'[t].ops, "submodule") =>
               /\ HasRun(frame'[t].ops, "fetch") <=> ~SameShortForm(frame'[t])
               /\ HasRun(frame'[t].ops, "checkout") <=> ~SameShortForm(frame'[t])

\* C18: a clone only when there is no working copy, at most once among the
\* calls that succeed; fetch and checkout exactly when the first 7 characters
\* of HEAD and of the commit differ; and when they are the same the call has
\* run no command that uses the network, clone or fetch.
C18_NoNetworkWhenEqual ==
    [][/\ CloneFetchCheckout
       /\ \A t \in Tasks :
              SameShortForm(frame'[t]) =>
                  /\ ~HasRun(frame'[t].ops, "clone")
                  /\ ~HasRun(frame'[t].ops, "fetch")]_vars

\* C18 as the code has it: when the first 7 characters are the same the call
\* runs no fetch and no checkout; the clone of a call that found no working
\* copy has run before HEAD is read, and git submodule update runs in every
\* call that gets so far.
C18_CloneFetchCheckout ==
    [][/\ CloneFetchCheckout
       /\ \A t \in Tasks :
              (HasRun(frame'[t].ops, "rev-parse") /\ SameShortForm(frame'[t])) =>
                  /\ ~HasRun(frame'[t].ops, "fetch")
                  /\ ~HasRun(frame'[t].ops, "checkout")
                  /\ pc'[t] \in GitSteps => pc'[t] = "submodule"]_vars

\* One call has cloned, fetched and checked out; a later call on the same
\* working copy for a commit with the same first 7 characters has done
\* neither.
C18_Witness ==
    \E t, u \in Tasks :
        /\ frame[t].ops = <<"clone", "rev-parse", "fetch", "checkout", "submodule">>
        /\ frame[u].ops = <<"rev-parse", "submodule">>
        /\ frame[u].clone_dir = frame[t].clone_dir
        /\ frame[u].commit /= frame[u].head

(***************************************************************************)
(* Claims about the cache of working copies                                *)
(***************************************************************************)

\* Task t has called fetch_git_repo.
HasFetched(t) == frame[t].clone_dir /= ""

\* Two lock entries whose sources are written differently and have the same
\* canonical URL.
SameCanonical(t, u) ==
    /\ t /= u
    /\ frame[t].repo_url /= <<>>
    /\ frame[t].repo_url = frame[u].repo_url
    /\ RawUrl(Package(t).source) /= RawUrl(Package(u).source)

\* Such entries have one memo table, and a commit of theirs is scanned again
\* only after a call for it failed.
ShareMemo ==
    /\ \A i, j \in 1..Len(git_repos) : git_repos[i].url = git_repos[j].url => i = j
    /\ \A i, j \in 1..Len(calls) :
           (i < j /\ calls[i].url = calls[j].url /\ calls[i].commit = calls[j].commit)
               => pc[calls[i].task] = "failed"

C20_GitFailure ==
    [][\A t \in Tasks :
           /\ (InFetch(t) /\ pc'[t] = "failed") =>
                  LET i == TaskRepo(t)
                  IN  /\ result'[t] = Raised("CalledProcessError")
                      /\ frame'[t] = frame[t]
                      /\ git_repos'[i].commits = git_repos[i].commits
                      /\ ~memo_has(git_repos'[i], frame[t].commit)
                      /\ IF git_repos[i].lock.waiters = <<>>
                         THEN ~git_repos'[i].lock.locked
                         ELSE pc'[Head(git_repos[i].lock.waiters)] = "locked"
                      /\ disk' = disk
           /\ pc[t] = "failed" =>
                  /\ pc'[t] = "failed"
                  /\ frame'[t] = frame[t]
                  /\ result'[t] = result[t]
                  /\ main_pc' \in {"gather_packages", "raised"}
                  /\ outfile' = NotWritten]_vars

\* The fetch of a call has failed after its clone: the working copy is there,
\* the memo table has no entry for the commit, the lock is free, and the run
\* has ended with the error.
C20_Witness ==
    \E t \in Tasks :
        /\ pc[t] = "failed"
        /\ result[t] = Raised("CalledProcessError")
        /\ frame[t].ops = <<"clone", "rev-parse">>
        /\ frame[t].clone_dir \in DOMAIN disk
        /\ ~memo_has(git_repos[TaskRepo(t)], frame[t].commit)
        /\ ~git_repos[TaskRepo(t)].lock.locked
        /\ main_pc = "raised"

(***************************************************************************)
(* Claims about the manifest scan                                          *)
(***************************************************************************)

\* The workspace table of the first manifest of the chain (a directory's
\* own, then its ancestors' up to the root) that declares a workspace.
RECURSIVE NearestWorkspace(_)
NearestWorkspace(chain) ==
    IF chain = <<>> THEN PyNone
    ELSE IF key_in(Head(chain), "workspace") THEN dict_get(Head(chain).dict, "workspace")
    ELSE NearestWorkspace(Tail(chain))

\* The chains of the directories of the tree, by path.
ChainOf(path) ==
    IF path = "." THEN <<tree.manifest>>
    ELSE IF path = "a" THEN <<tree.children[1].manifest, tree.manifest>>
    ELSE IF path = "b" THEN <<tree.children[2].manifest, tree.manifest>>
    ELSE <<tree.children[1].children[1].manifest, tree.children[1].manifest, tree.manifest>>

\* C21: the workspace recorded for a package is the workspace table of the
\* nearest directory, from the package's own up to the root, whose manifest
\* declares a workspace, an empty table included, or none.
C21_NearestWorkspace ==
    "packages" \in DOMAIN found =>
        \A k \in 1..Len(found.packages) :
            found.packages[k].value.workspace
                = NearestWorkspace(ChainOf(found.packages[k].value.path))

InDevOrBuildGroup(m) ==
    \/ m.dict[2].key \in {"dev-dependencies", "build-dependencies"}
    \/ /\ m.dict[2].key = "target"
       /\ m.dict[2].value.dict[1].value.dict[1].key = "dev-dependencies"

\* C23: an inherited entry of a dev- or build-dependencies group, also under
\* a target, is resolved against the workspace's 'dependencies' table and
\* never against a workspace table named after the group; when the workspace
\* has no 'dependencies' table the group is left as it is.
C23_DevDepsFromRootDependencies ==
    (norm_first /= NotYet /\ the_pkg.workspace /= PyNone /\ InDevOrBuildGroup(the_pkg.package)) =>
        IF key_in(the_pkg.workspace, "dependencies")
        THEN \A d \in KeysOf(SectionTable(the_pkg.package)) :
                 LET mine == dict_get(SectionTable(the_pkg.package).dict, d)
                     theirs == dict_get(dict_get(the_pkg.workspace.dict, "dependencies").dict, d)
                     got == dict_get(SectionTable(norm_first).dict, d)
                 IN  IF ~key_in(mine, "workspace") THEN got = mine
                     ELSE IF isdict(theirs) THEN MergedAsClaimed(got, mine, theirs)
                     ELSE IF Len(mine.dict) = 1 THEN got = theirs
                     ELSE got = TDict(dict_set(dict_del(mine.dict, "workspace"), "version", theirs))
        ELSE SectionTable(norm_first) = SectionTable(the_pkg.package)

\* A package whose dev-dependencies, under a target, inherit foo has been
\* normalized in a workspace that has both a 'dependencies' and a
\* 'dev-dependencies' table: foo is the table of 'dependencies'.
C23_Witness ==
    /\ norm_first /= NotYet
    /\ the_pkg.workspace /= PyNone
    /\ the_pkg.package.dict[2].key = "target"
    /\ InDevOrBuildGroup(the_pkg.package)
    /\ key_in(the_pkg.workspace, "dependencies")
    /\ key_in(the_pkg.workspace, "dev-dependencies")
    /\ key_in(SectionTable(the_pkg.package), "foo")
    /\ dict_get(SectionTable(the_pkg.package).dict, "foo") = Marker
    /\ dict_get(SectionTable(norm_first).dict, "foo")
           = dict_get(dict_get(the_pkg.workspace.dict, "dependencies").dict, "foo")

(***************************************************************************)
(* Claims about the vendor-registry entry of a git package                 *)
(***************************************************************************)

GitEntry(t) == "source" \in DOMAIN Package(t) /\ StartsWith(Package(t).source, GitPlusStr)

\* The values the source's query gives for a parameter.
QueryValues(t, name) == parse_qs_get(urlparse(Package(t).source).query, name)

\* The pin the claim gives the entry: rev before tag before branch.
PinAsClaimed(t) ==
    IF QueryValues(t, <<"r", "e", "v">>) /= <<>> THEN "rev"
    ELSE IF QueryValues(t, <<"t", "a", "g">>) /= <<>> THEN "tag"
    ELSE IF QueryValues(t, <<"b", "r", "a", "n", "c", "h">>) /= <<>> THEN "branch"
    ELSE "none"

\* The source gives both a tag and a branch.
SeveralPins(t) ==
    /\ GitEntry(t)
    /\ QueryValues(t, <<"t", "a", "g">>) /= <<>>
    /\ QueryValues(t, <<"b", "r", "a", "n", "c", "h">>) /= <<>>

\* C24: the vendor-registry entry of a git package has git = the canonical
\* URL, replace-with = vendored-sources, and one pin at most: rev if the
\* query has one, else tag, else branch; a query with several different
\* parameters raises no error.
C24_OnePinByPriority ==
    \A t \in Tasks :
        GitEntry(t) =>
            /\ (pc[t] = "done" /\ result[t].kind = "return") =>
                   LET e == result[t].vendored
                   IN  /\ e.key = Join(geturl(canonical_url(Package(t).source)))
                       /\ e.value.git = e.key
                       /\ e.value.replace_with = "vendored-sources"
                       /\ DOMAIN e.value \ {"git", "replace_with"}
                              = {PinAsClaimed(t)} \ {"none"}
                       /\ "rev" \in DOMAIN e.value => e.value.rev = "x"
                       /\ "tag" \in DOMAIN e.value => e.value.tag = "v"
                       /\ "branch" \in DOMAIN e.value => e.value.branch = "m"
            /\ (SeveralPins(t) /\ pc[t] = "failed") => result[t] /= Raised("AssertionError")

\* Both entries with several pins have been resolved: one has rev, the
\* other, without rev, has tag.
C24_Witness ==
    \E t, u \in Tasks :
        /\ SeveralPins(t)
        /\ SeveralPins(u)
        /\ pc[t] = "done"
        /\ pc[u] = "done"
        /\ DOMAIN result[t].vendored.value = {"git", "replace_with", "rev"}
        /\ DOMAIN result[u].vendored.value = {"git", "replace_with", "tag"}

(***************************************************************************)
(* Claims about the memo table                                             *)
(***************************************************************************)

\* C25: a memo entry is written with the packages scanned in the working
\* copy while its HEAD and the entry's commit have the same first 7
\* characters; no step changes or removes an entry there is; and a task that
\* has left the lock finds the entry of its commit.
C25_MemoEntries ==
    [][/\ \A t \in Tasks :
              (pc[t] = "scan" /\ pc'[t] = "release") =>
                  LET wc == disk[frame[t].clone_dir]
                  IN  /\ TakeFirst(wc.head, 7) = TakeFirst(frame[t].commit, 7)
                      /\ dict_get(git_repos'[TaskRepo(t)].commits, frame[t].commit)
                             = TreePackages(wc.origin, wc.head)
       /\ \A i \in 1..Len(git_repos) :
              /\ git_repos'[i].url = git_repos[i].url
              /\ \A k \in 1..Len(git_repos[i].commits) :
                     git_repos'[i].commits[k] = git_repos[i].commits[k]
       /\ \A t \in Tasks :
              pc'[t] = "build" => memo_has(git_repos'[TaskRepo(t)], frame'[t].commit)]_vars

\* Commit 1234567a of github.com/o/r has its memo entry, and a later task has
\* checked the working copy out to 89abcdef and written the entry of that
\* commit.
C25_Witness ==
    \E t, u \in Tasks :
        /\ t < u
        /\ frame[t].repo_url = GithubRepo
        /\ frame[u].repo_url = GithubRepo
        /\ frame[t].commit = CommitA
        /\ frame[u].commit = CommitC
        /\ HasRun(frame[u].ops, "checkout")
        /\ pc[t] = "done"
        /\ pc[u] = "done"
        /\ Len(git_repos[TaskRepo(u)].commits) = 2

(***************************************************************************)
(* Claims about the destinations of the operations                         *)
(***************************************************************************)

\* C26: no two repository-fetch operations of the list returned have the
\* same destination.
C26_DistinctFetchDests ==
    Returns =>
        \A i, j \in 1..Len(sources) :
            (IsRepoFetch(sources[i]) /\ IsRepoFetch(sources[j]) /\ i /= j)
                => sources[i].dest /= sources[j].dest

\* The directories below the vendor root that a task's operations write to.
VendorDests(t) ==
    IF result[t].kind = "return"
    THEN {result[t].sources[i].dest :
              i \in {j \in 1..Len(result[t].sources) :
                         "dest" \in DOMAIN result[t].sources[j]}}
    ELSE {}

\* C27: in a run that returns, two different lock entries never write to the
\* same directory below the vendor root.
C27_DistinctVendorDirs ==
    Returns =>
        \A t, u \in Tasks :
            (t /= u /\ Package(t) /= Package(u))
                => VendorDests(t) \cap VendorDests(u) = {}

\* The directories of packages in the working copies, relative to their root.
PackagePaths == {".", "foo", "crates/bar"}

\* The copy of the directory at path inside dir to the vendor directory of name.
CopyFrom(dir, path, name) ==
    [type |-> "shell",
     commands |-> <<"cp -r --reflink=auto \"" \o dir \o "/" \o path
                      \o "\" \"cargo/vendor/" \o name \o "\"">>]

\* The tasks of git packages that have returned operations.
GitTasks ==
    {t \in Tasks : /\ frame[t].repo_url /= <<>>
                   /\ result[t].kind = "return"
                   /\ result[t].sources /= <<>>}

\* The fetch operation at j is for the pair of task t, the copy of t reads
\* from inside its destination, and every place of the copy is after j.
FetchedBefore(t, j) ==
    /\ IsFetchOf(sources[j], [url |-> frame[t].repo_url, commit |-> frame[t].commit])
    /\ \E path \in PackagePaths :
           result[t].sources[1] = CopyFrom(sources[j].dest, path, Package(t).name)
    /\ \A i \in 1..Len(sources) : sources[i] = result[t].sources[1] => j < i

InlineChecksum(t) ==
    /\ "source" \in DOMAIN Package(t)
    /\ ~StartsWith(Package(t).source, GitPlusStr)
    /\ "checksum" \in DOMAIN Package(t)

\* The checksum the claim names for the entry.
ChecksumAsClaimed(t) ==
    IF InMetadata(t)
    THEN cargo_lock.metadata[checksum_key(Package(t).name, Package(t).version,
                                          Package(t).source)]
    ELSE Package(t).checksum

\* C30: for a registry entry with a checksum of its own, the archive's sha256
\* and the checksum file hold the metadata's checksum when the metadata has
\* the entry's key, and the entry's own checksum when the lock file has no
\* metadata or the metadata lacks the key.
C30_MetadataChecksumFirst ==
    \A t \in Tasks :
        (InlineChecksum(t) /\ pc[t] = "done") =>
            /\ result[t].kind = "return"
            /\ result[t].sources[1].type = "archive"
            /\ result[t].sources[1].sha256 = ChecksumAsClaimed(t)
            /\ result[t].sources[2].dest_filename = ".cargo-checksum.json"
            /\ result[t].sources[2].contents
                   = "{\"package\": \"" \o ChecksumAsClaimed(t) \o "\", \"files\": {}}"

\* C30's case: an entry resolved whose key the metadata holds with another
\* checksum than the entry's own, in a run that has returned its list.
C30_Witness ==
    /\ Returns
    /\ \E t \in Tasks :
           /\ InlineChecksum(t)
           /\ InMetadata(t)
           /\ ChecksumAsClaimed(t) /= Package(t).checksum
           /\ pc[t] = "done"

\* The other case of C30: the metadata is there but lacks the entry's key.
C30_InlineUsed ==
    \E t \in Tasks :
        /\ InlineChecksum(t)
        /\ "metadata" \in DOMAIN cargo_lock
        /\ ~InMetadata(t)
        /\ pc[t] = "done"
        /\ result[t].sources[1].sha256 = Package(t).checksum

(***************************************************************************)
(* Claims about the end of the run                                         *)
(***************************************************************************)

\* The tasks that are inside the 'async with' of the repository at i.
HoldersOf(i) ==
    {t \in Tasks : frame[t].repo_url = git_repos[i].url /\ InAsyncWith(t)}

\* The locks that task t holds.
LocksOf(t) ==
    {i \in 1..Len(git_repos) : git_repos[i].lock.locked /\ t \in HoldersOf(i)}

\* A lock is held exactly when one task is inside its 'async with'; a task
\* holds at most one lock, and none while it waits for one.
LockDiscipline ==
    /\ \A i \in 1..Len(git_repos) :
           IF git_repos[i].lock.locked
           THEN Cardinality(HoldersOf(i)) = 1
           ELSE HoldersOf(i) = {} /\ git_repos[i].lock.waiters = <<>>
    /\ \A t \in Tasks :
           /\ Cardinality(LocksOf(t)) <= 1
           /\ pc[t] = "waiting" => LocksOf(t) = {}

\* A task that has ended, with a result or an error, has left its lock.
LocksReleased ==
    \A t \in Tasks : pc[t] \in {"done", "failed", "build"} => LocksOf(t) = {}

\* Every task has ended and generate_sources has returned or raised.
Finished == AllTasksEnded /\ main_pc \in {"written", "raised"}

\* C29: the locks are held by one task each, a task holds at most one lock
\* and none while waiting, a task that has left the 'async with' by success
\* or failure holds none, and every run comes to its end with every task
\* ended.
C29_Terminates ==
    /\ [](LockDiscipline /\ LocksReleased)
    /\ <>Finished

\* C29's case: the run has ended after one task failed inside the 'async
\* with' of a repository and a later task took the same lock and cloned.
C29_Witness ==
    /\ Finished
    /\ \E t, u \in Tasks :
           /\ t < u
           /\ frame[t].repo_url = frame[u].repo_url
           /\ frame[u].repo_url /= <<>>
           /\ pc[t] = "failed"
           /\ result[t] = Raised("CalledProcessError")
           /\ pc[u] = "done"
           /\ HasRun(frame[u].ops, "rev-parse")

=============================================================================
